---- MODULE Spec2Model ----
(***************************************************************************)
(* Model of the Clausewitz script pipeline of arxbombus/mdet:              *)
(*   text -> Lexer -> tokens -> Parser -> parse tree -> NodeTransformer    *)
(*        -> normalized tree -> formatter -> text                          *)
(* Texts are sequences of one-character strings.  Python values are        *)
(* records [k |-> kind, s |-> text] where s is the text str() gives for    *)
(* the value, so that values of different Python types never compare       *)
(* equal and formatting is the identity on s only where the code's is.     *)
(***************************************************************************)
EXTENDS Integers, Sequences, FiniteSets, TLC

VARIABLES
    lexer,      \* the Lexer object: input, _start, position, line, column, tokens
    lexret,     \* what the last tokenize() call handed to its caller
    ncalls,     \* number of tokenize() calls made on the lexer object
    pc,         \* position of the pipeline driver
    pipe        \* the artefacts of the pipeline run

vars == <<lexer, lexret, ncalls, pc, pipe>>

-----------------------------------------------------------------------------
(* Characters and Python's str predicates, restricted to ASCII.            *)

NUL == "NUL"                       \* the "\0" the lexers return past the end

Digits == {"0", "1", "2", "3", "4", "5", "6", "7", "8", "9"}
Letters == {"a", "b", "c", "d", "e", "f", "g", "h", "i", "j", "k", "l", "m",
            "n", "o", "p", "q", "r", "s", "t", "u", "v", "w", "x", "y", "z",
            "A", "B", "C", "D", "E", "F", "G", "H", "I", "J", "K", "L", "M",
            "N", "O", "P", "Q", "R", "S", "T", "U", "V", "W", "X", "Y", "Z"}
Spaces == {" ", "\n", "\t", "\r"}

isdigit(c) == c \in Digits
isalpha(c) == c \in Letters
isalnum(c) == c \in Letters \cup Digits
isspace(c) == c \in Spaces

PyStr(s) == [k |-> "str", s |-> s]
PyIntV(s) == [k |-> "int", s |-> s]
PyFloatV(s) == [k |-> "float", s |-> s]
PyBool(b) == [k |-> "bool", s |-> IF b THEN <<"T", "r", "u", "e">> ELSE <<"F", "a", "l", "s", "e">>]
PyNone == [k |-> "none", s |-> <<"N", "o", "n", "e">>]

Contains(s, c) == \E i \in 1..Len(s) : s[i] = c

RECURSIVE Count(_, _)
Count(s, c) == IF s = <<>> THEN 0 ELSE (IF Head(s) = c THEN 1 ELSE 0) + Count(Tail(s), c)

RECURSIVE StripLeadingZeros(_)
StripLeadingZeros(s) ==
    IF Len(s) > 1 /\ Head(s) = "0" THEN StripLeadingZeros(Tail(s)) ELSE s

RECURSIVE StripTrailingZeros(_)
StripTrailingZeros(s) ==
    IF s # <<>> /\ s[Len(s)] = "0" THEN StripTrailingZeros(SubSeq(s, 1, Len(s) - 1)) ELSE s

AllDigits(s) == \A i \in 1..Len(s) : isdigit(s[i])

(* int(text) for an optional "-" and digits, as the text str() gives back. *)
PyInt(s) ==
    LET neg == s # <<>> /\ Head(s) = "-"
        mag == StripLeadingZeros(IF neg THEN Tail(s) ELSE s)
    IN  IF neg /\ mag # <<"0">> THEN <<"-">> \o mag ELSE mag

IntOk(s) ==
    LET body == IF s # <<>> /\ Head(s) = "-" THEN Tail(s) ELSE s
    IN  body # <<>> /\ AllDigits(body)

(* float(text) accepts one "." among at least one digit.                   *)
FloatOk(s) ==
    LET body == IF s # <<>> /\ Head(s) = "-" THEN Tail(s) ELSE s
    IN  /\ Count(body, ".") = 1
        /\ \A i \in 1..Len(body) : isdigit(body[i]) \/ body[i] = "."
        /\ \E i \in 1..Len(body) : isdigit(body[i])

DotAt(s) == CHOOSE i \in 1..Len(s) : s[i] = "."

(* repr(float(text)) for short decimal texts: the shortest decimal that    *)
(* reads back, "<int>.<frac>" with at least one digit on each side.        *)
PyFloat(s) ==
    LET neg == Head(s) = "-"
        body == IF neg THEN Tail(s) ELSE s
        d == DotAt(body)
        ip == StripLeadingZeros(IF d = 1 THEN <<"0">> ELSE SubSeq(body, 1, d - 1))
        fr == StripTrailingZeros(SubSeq(body, d + 1, Len(body)))
        fp == IF fr = <<>> THEN <<"0">> ELSE fr
    IN  (IF neg THEN <<"-">> ELSE <<>>) \o ip \o <<".">> \o fp

-----------------------------------------------------------------------------
(* Vocabulary: the word lists the Lexer loads from clausewitz.json and the *)
(* game file.                                                              *)

(* The lists are loaded from separate keys of two files, so a word can be  *)
(* in more than one of them.                                               *)
keywords == {<<"k", "w">>, <<"k", "m">>, <<"x", "x">>}
modifiers == {<<"m", "d">>, <<"k", "m">>, <<"m", "e">>, <<"x", "x">>}
effects == {<<"e", "f">>, <<"m", "e">>, <<"e", "t">>, <<"x", "x">>}
triggers == {<<"t", "r">>, <<"e", "t">>, <<"x", "x">>}
repeatable_keys == {<<"r", "k">>}

OPERATORS == {<<">">>, <<"<">>, <<">", "=">>, <<"<", "=">>, <<"!", "=">>,
              <<"=">>, <<":">>, <<"?">>, <<"@">>}

-----------------------------------------------------------------------------
(* Lexer (scripts/generator/lexer.py).  L is the lexer object plus err,    *)
(* the exception in flight: "none", "LexerError" or "ValueError".          *)

Token(type, value, line, column) ==
    [token_type |-> type, value |-> value, line |-> line, column |-> column]

(* LexerError(message, line, column); NoError when none was raised          *)
LexerError(message, line, column) == [message |-> message, line |-> line, column |-> column]
NoError == LexerError("none", 0, 0)

(* raised is the last LexerError raised on the object, the one tokenize    *)
(* hands to its logger                                                     *)
NewLexer(text) ==
    [input |-> text, start |-> 0, position |-> 0, line |-> 1, column |-> 1,
     tokens |-> <<>>, err |-> "none", raised |-> NoError]

previous_token_type(L) ==
    IF L.tokens # <<>> THEN L.tokens[Len(L.tokens)].token_type ELSE "NoToken"

has_more_chars(L) == L.position < Len(L.input)

char(L) == IF has_more_chars(L) THEN L.input[L.position + 1] ELSE NUL

current_value(L) ==
    IF has_more_chars(L)
    THEN SubSeq(L.input, L.start + 1, L.position)
    ELSE SubSeq(L.input, L.start + 1, Len(L.input))

advance1(L) ==
    IF L.err # "none" THEN L
    ELSE IF ~has_more_chars(L)
         THEN [L EXCEPT !.err = "LexerError",
                        !.raised = LexerError("Attempt to advance beyond end of input", L.line, L.column)]
    ELSE IF char(L) = "\n"
         THEN [L EXCEPT !.line = @ + 1, !.column = 1, !.position = @ + 1]
         ELSE [L EXCEPT !.column = @ + 1, !.position = @ + 1]

RECURSIVE lex_advance(_, _)
lex_advance(L, steps) == IF steps = 0 THEN L ELSE lex_advance(advance1(L), steps - 1)

(* The conditions the handlers pass to _consume_while.                     *)
Cond(c, cls) ==
    CASE cls.name = "space"  -> isspace(c)
      [] cls.name = "not"    -> c # cls.c
      [] cls.name = "number" -> isdigit(c) \/ c \in {".", "%"}
      [] cls.name = "ident"  -> isalnum(c) \/ c \in {"_", "-", "."}

RECURSIVE consume_while(_, _)
consume_while(L, cls) ==
    IF L.err = "none" /\ has_more_chars(L) /\ Cond(char(L), cls)
    THEN consume_while(advance1(L), cls)
    ELSE L

lex_peek(L, steps) ==
    IF L.position + steps < Len(L.input) THEN L.input[L.position + steps + 1] ELSE NUL

Max(a, b) == IF a >= b THEN a ELSE b

Max0(S) == CHOOSE x \in S : \A y \in S : y <= x

add_token(L, type, value) ==
    IF L.err # "none" THEN L
    ELSE [L EXCEPT !.tokens = Append(@, Token(type, value, L.line, Max(L.column, 1)))]

is_whitespace(c) == isspace(c) \/ c = "\n"

is_operator(chars) == chars \in OPERATORS

(* a lexer that looks a word up in the modifiers first                     *)
Mut_get_identifier_token_type(chars) ==
    IF chars \in modifiers THEN "MODIFIER"
    ELSE IF chars \in keywords THEN "KEYWORD"
    ELSE IF chars \in effects THEN "EFFECT"
    ELSE IF chars \in triggers THEN "TRIGGER"
    ELSE "IDENTIFIER"

get_identifier_token_type(chars) ==
    IF chars \in keywords THEN "KEYWORD"
    ELSE IF chars \in modifiers THEN "MODIFIER"
    ELSE IF chars \in effects THEN "EFFECT"
    ELSE IF chars \in triggers THEN "TRIGGER"
    ELSE "IDENTIFIER"

is_boolean(value) == value \in {<<"y", "e", "s">>, <<"n", "o">>}

skip_whitespace(L) == consume_while(L, [name |-> "space"])

handle_braces(L) ==
    advance1(add_token(L, IF char(L) = "{" THEN "OPEN_BRACE" ELSE "CLOSE_BRACE",
                       PyStr(<<char(L)>>)))

handle_strings(L) ==
    LET L1 == [L EXCEPT !.start = L.position + 1]
        quote == char(L)
        L2 == consume_while(advance1(L1), [name |-> "not", c |-> quote])
    IN  advance1(add_token(L2, "STRING_LITERAL", PyStr(current_value(L2))))

(* re.match(r"\b\d{1,4}\.\d{1,4}\.\d{1,4}\b", v): a match of a prefix of v *)
DateMatch(v) ==
    \E a \in 1..4, b \in 1..4, c \in 1..4 :
        LET p == a + b + c + 2
        IN  /\ Len(v) >= p
            /\ AllDigits(SubSeq(v, 1, a))
            /\ v[a + 1] = "."
            /\ AllDigits(SubSeq(v, a + 2, a + b + 1))
            /\ v[a + b + 2] = "."
            /\ AllDigits(SubSeq(v, a + b + 3, p))
            /\ (Len(v) = p \/ ~(isalnum(v[p + 1]) \/ v[p + 1] = "_"))

handle_numbers(L) ==
    LET L1 == [L EXCEPT !.start = L.position]
        L2 == IF char(L1) \in {"-", "."} THEN advance1(L1) ELSE L1
        L3 == consume_while(L2, [name |-> "number"])
        v == current_value(L3)
    IN  IF DateMatch(v) THEN add_token(L3, "DATE_LITERAL", PyStr(v))
        ELSE IF Contains(v, "%") THEN add_token(L3, "PERCENTAGE_LITERAL", PyStr(v))
        ELSE IF Contains(v, ".")
             THEN IF FloatOk(v) THEN add_token(L3, "NUMBER_LITERAL", PyFloatV(PyFloat(v)))
                  ELSE [L3 EXCEPT !.err = "ValueError"]
             ELSE IF IntOk(v) THEN add_token(L3, "NUMBER_LITERAL", PyIntV(PyInt(v)))
                  ELSE [L3 EXCEPT !.err = "ValueError"]

handle_comments(L) ==
    LET L1 == consume_while([L EXCEPT !.start = L.position], [name |-> "not", c |-> "\n"])
    IN  add_token(L1, "COMMENT", PyStr(current_value(L1)))

(* ^[a-zA-Z_][a-zA-Z0-9_-]*$                                               *)
PlainWord(v) ==
    /\ v # <<>>
    /\ isalpha(v[1]) \/ v[1] = "_"
    /\ \A i \in 2..Len(v) : isalnum(v[i]) \/ v[i] \in {"_", "-"}

handle_identifiers(L) ==
    LET L1 == [L EXCEPT !.start = L.position]
        L2 == IF char(L1) = "@" THEN advance1(L1) ELSE L1
        L3 == consume_while(L2, [name |-> "ident"])
        value == current_value(L3)
    IN  IF is_boolean(value) THEN add_token(L3, "BOOLEAN", PyBool(value = <<"y", "e", "s">>))
        ELSE IF Contains(value, "@")
             THEN IF previous_token_type(L3) = "IDENTIFIER"
                  THEN add_token(L3, "IDENTIFIER", PyStr(value))
                  ELSE add_token(L3, "CONSTANT", PyStr(value))
        ELSE IF Contains(value, ".") THEN add_token(L3, "SCOPE", PyStr(value))
        ELSE IF PlainWord(value) THEN add_token(L3, get_identifier_token_type(value), PyStr(value))
        ELSE add_token(L3, "IDENTIFIER", PyStr(value))

handle_operator(L) ==
    LET L1 == [L EXCEPT !.start = L.position]
        val == current_value(L1) \o <<lex_peek(L1, 1)>>
    IN  IF char(L1) = "@" THEN handle_identifiers(L1)
        ELSE IF is_operator(val)
             THEN LET L2 == lex_advance(L1, 2) IN add_token(L2, "OPERATOR", PyStr(current_value(L2)))
             ELSE LET L2 == advance1(L1) IN add_token(L2, "OPERATOR", PyStr(current_value(L2)))

handle_unexpected_char(L) ==
    [L EXCEPT !.err = "LexerError",
              !.raised = LexerError("Unexpected character", L.line, L.column)]

(* One pass of the dispatch loop of Lexer.tokenize.                        *)
LexStep(L) ==
    LET c == char(L)
    IN  IF is_whitespace(c) THEN skip_whitespace(L)
        ELSE IF c = "#" THEN handle_comments(L)
        ELSE IF c \in {"{", "}"} THEN handle_braces(L)
        ELSE IF c \in {"\"", "'"} THEN handle_strings(L)
        ELSE IF isdigit(c) \/ (c = "-" /\ isdigit(lex_peek(L, 1))) THEN handle_numbers(L)
        ELSE IF is_operator(<<c>>) THEN handle_operator(L)
        ELSE IF isalpha(c) \/ c \in {"_", "-", ".", "@"} THEN handle_identifiers(L)
        ELSE handle_unexpected_char(L)

RECURSIVE LexLoop(_)
LexLoop(L) ==
    IF L.err = "none" /\ has_more_chars(L) THEN LexLoop(LexStep(L)) ELSE L

(* Lexer.tokenize: the lexer object after the call and what the call       *)
(* returns: self.tokens, [] after a caught LexerError, or the exception    *)
(* that escapes.                                                           *)
tokenize(L) ==
    LET R == LexLoop(L)
    IN  IF R.err = "none"
        THEN LET D == add_token(R, "EOF", PyNone) IN [obj |-> D, ret |-> "tokens"]
        ELSE IF R.err = "LexerError"
        THEN [obj |-> [R EXCEPT !.err = "none"], ret |-> "empty"]
        ELSE [obj |-> [R EXCEPT !.err = "none"], ret |-> R.err]

(* Lexer.__init__ with config["tokenize"] = auto.                          *)
LexerInit(text, auto) ==
    IF auto THEN tokenize(NewLexer(text)) ELSE [obj |-> NewLexer(text), ret |-> "notcalled"]

-----------------------------------------------------------------------------
(* Parser (scripts/generator/parser.py).  The cursor is a 0-based index    *)
(* into the token list; a parse routine returns the node it built and the  *)
(* cursor after it, or the exception it raised and the cursor it raised at.*)

ValueNode(token) == [n |-> "Value", value |-> token.value, type |-> token.token_type]
KeyValueNode(key, value) == [n |-> "KeyValue", key |-> key, value |-> value]
ComparisonNode(left, operator, right) ==
    [n |-> "Comparison", left |-> left, operator |-> operator, right |-> right]
ObjectNode(cls, context, children) ==
    [n |-> cls, context |-> context, children |-> children]
ArrayNode(context, elements) == [n |-> "Array", context |-> context, elements |-> elements]

ObjectClasses == {"Object", "EffectBlock", "KeywordBlock", "TriggerBlock"}

NoNode == [n |-> "NoNode"]
POk(node, pos) == [err |-> "none", node |-> node, pos |-> pos]
PRaise(kind, pos) == [err |-> kind, node |-> NoNode, pos |-> pos]

strip_comments(tokens) == SelectSeq(tokens, LAMBDA t : t.token_type # "COMMENT")

InRange(toks, pos) == pos < Len(toks)
current_token(toks, pos) == toks[pos + 1]

lookahead(toks, pos, distance) ==
    IF 0 <= pos + distance /\ pos + distance < Len(toks)
    THEN toks[pos + distance + 1]
    ELSE Token("EOF", PyNone, current_token(toks, pos).line, current_token(toks, pos).column)

Min(a, b) == IF a <= b THEN a ELSE b
(* a parser whose cursor skips one token more than it was asked to         *)
Mut_p_advance(toks, pos, steps) == Min(pos + steps + 1, Len(toks))

p_advance(toks, pos, steps) == Min(pos + steps, Len(toks))

NoValue == [k |-> "novalue"]

(* Parser.expect: TRUE when it returns, FALSE when it raises.              *)
expect(toks, pos, types, value) ==
    /\ current_token(toks, pos).token_type \in types
    /\ value = NoValue \/ current_token(toks, pos).value = value

(* Parser.consume: the cursor after the token, or the exception.           *)
consume(toks, pos, types, value) ==
    IF ~InRange(toks, pos) THEN PRaise("IndexError", pos)
    ELSE IF expect(toks, pos, types, value) THEN POk(current_token(toks, pos), p_advance(toks, pos, 1))
    ELSE PRaise("ParseException", pos)

IdentifierTypes == {"IDENTIFIER", "CONSTANT", "KEYWORD", "SCOPE", "MODIFIER", "EFFECT",
                    "TRIGGER", "VARIABLE"}
LiteralShaped == {"IDENTIFIER", "NUMBER_LITERAL", "PERCENTAGE_LITERAL", "STRING_LITERAL",
                  "BOOLEAN", "CONSTANT", "DATE_LITERAL", "SCOPE", "MODIFIER", "EFFECT",
                  "VARIABLE"}
EqualsSign == PyStr(<<"=">>)

get_identifier_type(toks, pos) ==
    LET next_token == lookahead(toks, pos, 1)
        next_next_token == lookahead(toks, pos, 2)
    IN  IF \/ next_token.token_type = "OPEN_BRACE"
           \/ (next_token.value = EqualsSign /\ next_next_token.token_type = "OPEN_BRACE")
        THEN "object"
        ELSE IF next_token.token_type = "OPERATOR"
        THEN IF next_token.value = EqualsSign
             THEN IF next_next_token.token_type \in LiteralShaped
                  THEN "key_value_pair"
                  ELSE "value"
             ELSE "comparison"
        ELSE "value"

ParseValueTypes == {"STRING_LITERAL", "NUMBER_LITERAL", "PERCENTAGE_LITERAL", "BOOLEAN",
                    "CONSTANT", "DATE_LITERAL", "IDENTIFIER", "VARIABLE"}

(* a parser that takes whatever token is under the cursor as a value      *)
Mut_parse_value(toks, pos) ==
    IF ~InRange(toks, pos) THEN PRaise("IndexError", pos)
    ELSE POk(ValueNode(current_token(toks, pos)), p_advance(toks, pos, 1))

(* Parser._parse_value                                                     *)
parse_value(toks, pos) ==
    IF ~InRange(toks, pos) THEN PRaise("IndexError", pos)
    ELSE IF current_token(toks, pos).token_type \in ParseValueTypes
    THEN POk(ValueNode(current_token(toks, pos)), p_advance(toks, pos, 1))
    ELSE PRaise("ParseException", pos)

parse_comparison(toks, pos) ==
    LET left == parse_value(toks, pos)
        operator == consume(toks, left.pos, {"OPERATOR"}, NoValue)
        right == parse_value(toks, operator.pos)
    IN  IF left.err # "none" THEN left
        ELSE IF operator.err # "none" THEN operator
        ELSE IF right.err # "none" THEN right
        ELSE POk(ComparisonNode(left.node, operator.node.value, right.node), right.pos)

KeyTypes == {"IDENTIFIER", "CONSTANT", "KEYWORD", "SCOPE", "EFFECT", "TRIGGER", "VARIABLE"}

parse_key_value_pair(toks, pos) ==
    LET key == consume(toks, pos, KeyTypes, NoValue)
        eq == consume(toks, key.pos, {"OPERATOR"}, EqualsSign)
        value == parse_value(toks, eq.pos)
    IN  IF key.err # "none" THEN key
        ELSE IF eq.err # "none" THEN eq
        ELSE IF value.err # "none" THEN value
        ELSE POk(KeyValueNode(ValueNode(key.node), value.node), value.pos)

IsValueNode(x) == x.n = "Value"
IsKeyValueNode(x) == x.n = "KeyValue"

(* The class of block node _parse_object builds for a context token.       *)
BlockClass(context) ==
    IF context.token_type = "EFFECT" THEN "EffectBlock"
    ELSE IF context.token_type = "KEYWORD" THEN "KeywordBlock"
    ELSE IF context.token_type = "TRIGGER" THEN "TriggerBlock"
    ELSE "Object"

(* a parser that leaves the children of a trigger block as they are       *)
Mut_TriggerConvert(cls, children) == children

(* parser.py 325-328: key/value children of a trigger block become "="     *)
(* comparisons.                                                            *)
TriggerConvert(cls, children) ==
    IF cls = "TriggerBlock"
    THEN [i \in 1..Len(children) |->
            IF IsKeyValueNode(children[i])
            THEN ComparisonNode(children[i].key, PyStr(<<"=">>), children[i].value)
            ELSE children[i]]
    ELSE children

IsConstantPair(x) == IsKeyValueNode(x) /\ x.key.type = "CONSTANT"

ConstantsContext == ValueNode(Token("CONSTANT", PyStr(<<"_", "c", "o", "n", "s", "t", "a", "n", "t", "s">>), 0, 0))

(* parser.py 329-341: the loop runs over the children as they were before  *)
(* it; every pass rebuilds node.children without the key/value pairs that  *)
(* carry the hoisted pair's key text.                                      *)
HoistConstants(children) ==
    LET hoisted == SelectSeq(children, IsConstantPair)
        names == {hoisted[i].key.value : i \in 1..Len(hoisted)}
        rest == SelectSeq(children, LAMBDA x : ~(IsKeyValueNode(x) /\ x.key.value \in names))
    IN  IF Len(hoisted) > 0
        THEN <<ObjectNode("Object", ConstantsContext, hoisted)>> \o rest
        ELSE rest

(* a parser that keeps a group of bare values as an object                *)
Mut_FinishObject(context, children) ==
    ObjectNode(BlockClass(context), ValueNode(context),
               HoistConstants(TriggerConvert(BlockClass(context), children)))

(* parser.py 320-342: the node built from the parsed children.             *)
FinishObject(context, children) ==
    IF \A i \in 1..Len(children) : IsValueNode(children[i])
    THEN ArrayNode(ValueNode(context), children)
    ELSE ObjectNode(BlockClass(context), ValueNode(context),
                    HoistConstants(TriggerConvert(BlockClass(context), children)))

ObjectContextTypes == {"IDENTIFIER", "CONSTANT", "KEYWORD", "SCOPE", "MODIFIER", "EFFECT",
                       "TRIGGER"}
ParseLiteralTypes == {"STRING_LITERAL", "NUMBER_LITERAL", "PERCENTAGE_LITERAL", "BOOLEAN",
                      "DATE_LITERAL"}

RECURSIVE parse(_, _), parse_object(_, _, _), parse_children(_, _, _, _)

(* The loops "while current_token is not <stop>: add_child(_parse())".     *)
parse_children(toks, pos, acc, stop) ==
    IF ~InRange(toks, pos) THEN PRaise("IndexError", pos)
    ELSE IF current_token(toks, pos).token_type = stop THEN POk(acc, pos)
    ELSE LET r == parse(toks, pos)
         IN  IF r.err # "none" THEN r
             ELSE parse_children(toks, r.pos, Append(acc, r.node), stop)

parse_object(toks, pos, context) ==
    LET open == consume(toks, pos, {"OPEN_BRACE"}, NoValue)
        body == parse_children(toks, open.pos, <<>>, "CLOSE_BRACE")
        close == consume(toks, body.pos, {"CLOSE_BRACE"}, NoValue)
    IN  IF open.err # "none" THEN open
        ELSE IF body.err # "none" THEN body
        ELSE IF close.err # "none" THEN close
        ELSE POk(FinishObject(context, body.node), close.pos)

parse(toks, pos) ==
    IF ~InRange(toks, pos) THEN PRaise("IndexError", pos)
    ELSE LET current == current_token(toks, pos)
    IN  IF current.token_type \in ParseLiteralTypes THEN parse_value(toks, pos)
        ELSE IF current.token_type \in IdentifierTypes
        THEN LET identifier_type == get_identifier_type(toks, pos)
             IN  CASE identifier_type = "object" ->
                        LET c == consume(toks, pos, ObjectContextTypes, NoValue)
                        IN  IF c.err # "none" THEN c
                            ELSE IF ~InRange(toks, c.pos) THEN PRaise("IndexError", c.pos)
                            ELSE IF current_token(toks, c.pos).token_type = "OPEN_BRACE"
                            THEN parse_object(toks, c.pos, current)
                            ELSE LET e == consume(toks, c.pos, {"OPERATOR"}, EqualsSign)
                                 IN  IF e.err # "none" THEN e
                                     ELSE parse_object(toks, e.pos, current)
                    [] identifier_type = "key_value_pair" -> parse_key_value_pair(toks, pos)
                    [] identifier_type = "value" -> parse_value(toks, pos)
                    [] identifier_type = "comparison" -> parse_comparison(toks, pos)
        ELSE PRaise("ParseException", pos)

RootContext == ValueNode(Token("ROOT", PyStr(<<"r", "o", "o", "t">>), 0, 0))

(* Parser.parse_tokens, after Parser.__init__ stripped the comments.       *)
parse_tokens(tokens) ==
    LET toks == strip_comments(tokens)
        body == parse_children(toks, 0, <<>>, "EOF")
    IN  IF body.err # "none" THEN body
        ELSE POk(ObjectNode("Object", RootContext, body.node), body.pos)

-----------------------------------------------------------------------------
(* NodeTransformer (scripts/generator/node_transformer.py).  A mapping is  *)
(* the sequence of its entries in insertion order, as a Python dict keeps  *)
(* them.  A conversion returns the value or the exception it raised.       *)

TransformedString(value) == [k |-> "TransformedString", s |-> value]
TransformedConstant(value) == [k |-> "TransformedConstant", s |-> value]
TransformedDate(value) == [k |-> "TransformedDate", s |-> value]
TransformedPercentage(value, sign) == [k |-> "TransformedPercentage", s |-> value, sign |-> sign]
TransformedComparison(left, operator, right) ==
    [k |-> "TransformedComparison", left |-> left, operator |-> operator, right |-> right]
PyList(items) == [k |-> "list", items |-> items]
PyDict(entries) == [k |-> "dict", entries |-> entries]

PlainKinds == {"str", "int", "float", "bool"}
IsTransformedScalar(v) ==
    v.k \in {"TransformedString", "TransformedConstant", "TransformedPercentage", "TransformedDate"}
IsPlain(v) == v.k \in PlainKinds
IsList(v) == v.k = "list"
IsDict(v) == v.k = "dict"

TOk(value) == [err |-> "none", val |-> value]
TRaise(kind) == [err |-> kind, val |-> PyNone]

EndsWith(s, suffix) ==
    Len(s) >= Len(suffix) /\ SubSeq(s, Len(s) - Len(suffix) + 1, Len(s)) = suffix

(* float(text) for the texts the percentage branch can hand it: an         *)
(* optional "-", digits and at most one ".".                               *)
NumberOk(s) ==
    LET body == IF s # <<>> /\ Head(s) = "-" THEN Tail(s) ELSE s
    IN  /\ Count(body, ".") <= 1
        /\ \A i \in 1..Len(body) : isdigit(body[i]) \/ body[i] = "."
        /\ \E i \in 1..Len(body) : isdigit(body[i])

PyFloatOf(s) == IF Contains(s, ".") THEN PyFloat(s) ELSE PyFloat(s \o <<".", "0">>)

IntPart(f) == SubSeq(f, 1, DotAt(f) - 1)
FracPart(f) == SubSeq(f, DotAt(f) + 1, Len(f))

(* repr(x / 100) for x given as repr text: the decimal point moves two     *)
(* places to the left.                                                     *)
Div100(f) ==
    LET neg == Head(f) = "-"
        body == IF neg THEN Tail(f) ELSE f
        ip == <<"0", "0">> \o IntPart(body)
        moved == SubSeq(ip, 1, Len(ip) - 2) \o <<".">> \o SubSeq(ip, Len(ip) - 1, Len(ip)) \o FracPart(body)
    IN  (IF neg THEN <<"-">> ELSE <<>>) \o PyFloat(moved)

-----------------------------------------------------------------------------
(* Python text helpers: "sep".join(lines), repr() and float arithmetic.    *)

RECURSIVE Join(_, _)
Join(lines, sep) ==
    IF lines = <<>> THEN <<>>
    ELSE IF Len(lines) = 1 THEN lines[1]
    ELSE lines[1] \o sep \o Join(Tail(lines), sep)

RECURSIVE Flatten(_)
Flatten(seqs) == IF seqs = <<>> THEN <<>> ELSE Head(seqs) \o Flatten(Tail(seqs))

RECURSIVE Repeat(_, _)
Repeat(s, n) == IF n <= 0 THEN <<>> ELSE s \o Repeat(s, n - 1)

(* str.replace(old, new)                                                   *)
RECURSIVE Replace(_, _, _)
Replace(s, old, new) ==
    IF Len(s) < Len(old) THEN s
    ELSE IF SubSeq(s, 1, Len(old)) = old
    THEN new \o Replace(SubSeq(s, Len(old) + 1, Len(s)), old, new)
    ELSE <<Head(s)>> \o Replace(Tail(s), old, new)

(* repr(str): single quotes unless the text holds ' and no ".              *)
ReprStr(s) ==
    LET esc == Replace(Replace(Replace(s, <<"\\">>, <<"\\", "\\">>), <<"\n">>, <<"\\", "n">>),
                       <<"\t">>, <<"\\", "t">>)
    IN  IF Contains(s, "'") /\ ~Contains(s, "\"")
        THEN <<"\"">> \o esc \o <<"\"">>
        ELSE <<"'">> \o Replace(esc, <<"'">>, <<"\\", "'">>) \o <<"'">>

RECURSIVE PyRepr(_), ReprItems(_), ReprEntries(_)

ReprItems(items) ==
    IF items = <<>> THEN <<>>
    ELSE IF Len(items) = 1 THEN PyRepr(items[1])
    ELSE PyRepr(items[1]) \o <<",", " ">> \o ReprItems(Tail(items))

ReprEntries(entries) ==
    IF entries = <<>> THEN <<>>
    ELSE LET e == PyRepr(entries[1].key) \o <<":", " ">> \o PyRepr(entries[1].value)
         IN  IF Len(entries) = 1 THEN e ELSE e \o <<",", " ">> \o ReprEntries(Tail(entries))

(* repr(value), which str(value) gives for every value but a str           *)
PyRepr(v) ==
    CASE v.k = "str" -> ReprStr(v.s)
      [] v.k \in {"int", "float", "bool", "none"} -> v.s
      [] v.k = "TransformedString" ->
            <<"T", "r", "a", "n", "s", "f", "o", "r", "m", "e", "d", "S", "t", "r", "i", "n", "g", "(", "v", "a", "l", "u", "e", "=">> \o ReprStr(v.s) \o <<")">>
      [] v.k = "TransformedConstant" ->
            <<"T", "r", "a", "n", "s", "f", "o", "r", "m", "e", "d", "C", "o", "n", "s", "t", "a", "n", "t", "(", "v", "a", "l", "u", "e", "=">> \o ReprStr(v.s) \o <<")">>
      [] v.k = "TransformedPercentage" ->
            <<"T", "r", "a", "n", "s", "f", "o", "r", "m", "e", "d", "P", "e", "r", "c", "e", "n", "t", "a", "g", "e", "(", "v", "a", "l", "u", "e", "=">> \o v.s \o <<",", " ", "p", "e", "r", "c", "e", "n", "t", "a", "g", "e", "_", "s", "i", "g", "n", "=">>
                \o ReprStr(v.sign) \o <<")">>
      [] v.k = "TransformedComparison" ->
            <<"T", "r", "a", "n", "s", "f", "o", "r", "m", "e", "d", "C", "o", "m", "p", "a", "r", "i", "s", "o", "n", "(", "l", "e", "f", "t", "=">> \o PyRepr(v.left) \o <<",", " ", "o", "p", "e", "r", "a", "t", "o", "r", "=">>
                \o PyRepr(v.operator) \o <<",", " ", "r", "i", "g", "h", "t", "=">> \o PyRepr(v.right) \o <<")">>
      [] v.k = "list" -> <<"[">> \o ReprItems(v.items) \o <<"]">>
      [] v.k = "dict" -> <<"{">> \o ReprEntries(v.entries) \o <<"}">>

PyStrOf(v) == IF v.k = "str" THEN v.s ELSE PyRepr(v)

(* IEEE-754 double results that differ from exact decimal arithmetic, for  *)
(* the numbers the model's percentage texts reach: x |-> repr(x / 100) and *)
(* v |-> repr(v * 100).                                                    *)
DivInexact ==
   {<<<<"0", ".", "0", "7">>, <<"0", ".", "0", "0", "0", "7", "0", "0", "0", "0", "0", "0", "0", "0", "0", "0", "0", "0", "0", "0", "1">>>>,
    <<<<"0", ".", "5", "5">>, <<"0", ".", "0", "0", "5", "5", "0", "0", "0", "0", "0", "0", "0", "0", "0", "0", "0", "0", "0", "0", "5">>>>,
    <<<<"0", ".", "5", "7">>, <<"0", ".", "0", "0", "5", "6", "9", "9", "9", "9", "9", "9", "9", "9", "9", "9", "9", "9", "9", "9">>>>,
    <<<<"0", ".", "7">>, <<"0", ".", "0", "0", "6", "9", "9", "9", "9", "9", "9", "9", "9", "9", "9", "9", "9", "9", "9", "9">>>>,
    <<<<"5", ".", "0", "5">>, <<"0", ".", "0", "5", "0", "4", "9", "9", "9", "9", "9", "9", "9", "9", "9", "9", "9", "9", "9", "6">>>>,
    <<<<"5", ".", "7", "7">>, <<"0", ".", "0", "5", "7", "6", "9", "9", "9", "9", "9", "9", "9", "9", "9", "9", "9", "9", "9", "4">>>>,
    <<<<"5", "7", ".", "7">>, <<"0", ".", "5", "7", "7", "0", "0", "0", "0", "0", "0", "0", "0", "0", "0", "0", "0", "1">>>>,
    <<<<"7", ".", "7", "7">>, <<"0", ".", "0", "7", "7", "6", "9", "9", "9", "9", "9", "9", "9", "9", "9", "9", "9", "9", "9">>>>,
    <<<<"7", "0", ".", "7">>, <<"0", ".", "7", "0", "7", "0", "0", "0", "0", "0", "0", "0", "0", "0", "0", "0", "0", "1">>>>}

MulInexact ==
   {<<<<"0", ".", "0", "0", "0", "7", "0", "0", "0", "0", "0", "0", "0", "0", "0", "0", "0", "0", "0", "0", "1">>, <<"0", ".", "0", "7">>>>,
    <<<<"0", ".", "0", "0", "5", "5", "0", "0", "0", "0", "0", "0", "0", "0", "0", "0", "0", "0", "0", "0", "5">>, <<"0", ".", "5", "5">>>>,
    <<<<"0", ".", "0", "0", "5", "6", "9", "9", "9", "9", "9", "9", "9", "9", "9", "9", "9", "9", "9", "9">>, <<"0", ".", "5", "7">>>>,
    <<<<"0", ".", "0", "0", "6", "9", "9", "9", "9", "9", "9", "9", "9", "9", "9", "9", "9", "9", "9", "9">>, <<"0", ".", "7">>>>,
    <<<<"0", ".", "0", "5", "0", "4", "9", "9", "9", "9", "9", "9", "9", "9", "9", "9", "9", "9", "9", "6">>, <<"5", ".", "0", "5">>>>,
    <<<<"0", ".", "0", "5", "7", "6", "9", "9", "9", "9", "9", "9", "9", "9", "9", "9", "9", "9", "9", "4">>, <<"5", ".", "7", "7">>>>,
    <<<<"0", ".", "0", "7">>, <<"7", ".", "0", "0", "0", "0", "0", "0", "0", "0", "0", "0", "0", "0", "0", "0", "1">>>>,
    <<<<"0", ".", "0", "7", "0", "5">>, <<"7", ".", "0", "4", "9", "9", "9", "9", "9", "9", "9", "9", "9", "9", "9", "9", "9">>>>,
    <<<<"0", ".", "0", "7", "7", "6", "9", "9", "9", "9", "9", "9", "9", "9", "9", "9", "9", "9", "9">>, <<"7", ".", "7", "7">>>>,
    <<<<"0", ".", "5", "5">>, <<"5", "5", ".", "0", "0", "0", "0", "0", "0", "0", "0", "0", "0", "0", "0", "0", "1">>>>,
    <<<<"0", ".", "5", "5", "5">>, <<"5", "5", ".", "5", "0", "0", "0", "0", "0", "0", "0", "0", "0", "0", "0", "0", "1">>>>,
    <<<<"0", ".", "5", "7">>, <<"5", "6", ".", "9", "9", "9", "9", "9", "9", "9", "9", "9", "9", "9", "9", "9", "9">>>>,
    <<<<"0", ".", "5", "7", "5">>, <<"5", "7", ".", "4", "9", "9", "9", "9", "9", "9", "9", "9", "9", "9", "9", "9", "9">>>>,
    <<<<"0", ".", "7", "0", "7", "0", "0", "0", "0", "0", "0", "0", "0", "0", "0", "0", "0", "1">>, <<"7", "0", ".", "7">>>>,
    <<<<"7", "0", ".", "0", "7">>, <<"7", "0", "0", "6", ".", "9", "9", "9", "9", "9", "9", "9", "9", "9", "9", "9", "9">>>>,
    <<<<"7", "0", ".", "5", "7">>, <<"7", "0", "5", "6", ".", "9", "9", "9", "9", "9", "9", "9", "9", "9", "9", "9", "9">>>>,
    <<<<"7", "5", ".", "0", "7">>, <<"7", "5", "0", "6", ".", "9", "9", "9", "9", "9", "9", "9", "9", "9", "9", "9", "9">>>>,
    <<<<"7", "5", ".", "5", "7">>, <<"7", "5", "5", "6", ".", "9", "9", "9", "9", "9", "9", "9", "9", "9", "9", "9", "9">>>>,
    <<<<"7", "7", ".", "0", "7">>, <<"7", "7", "0", "6", ".", "9", "9", "9", "9", "9", "9", "9", "9", "9", "9", "9", "9">>>>,
    <<<<"7", "7", ".", "5", "7">>, <<"7", "7", "5", "6", ".", "9", "9", "9", "9", "9", "9", "9", "9", "9", "9", "9", "9">>>>}

Lookup(table, key) == (CHOOSE p \in table : p[1] = key)[2]
InTable(table, key) == \E p \in table : p[1] = key

Magnitude(f) == IF Head(f) = "-" THEN Tail(f) ELSE f
Signed(f, m) == IF Head(f) = "-" THEN <<"-">> \o m ELSE m

(* repr(float(f) / 100)                                                    *)
FloatDiv100(f) ==
    IF InTable(DivInexact, Magnitude(f)) THEN Signed(f, Lookup(DivInexact, Magnitude(f)))
    ELSE Div100(f)

(* the exact product: the decimal point moves two places to the right      *)
Mul100(f) ==
    LET body == Magnitude(f)
        fr == FracPart(body) \o <<"0", "0">>
    IN  Signed(f, PyFloat(IntPart(body) \o SubSeq(fr, 1, 2) \o <<".">> \o SubSeq(fr, 3, Len(fr))))

(* repr(float(f) * 100)                                                    *)
FloatMul100(f) ==
    IF InTable(MulInexact, Magnitude(f)) THEN Signed(f, Lookup(MulInexact, Magnitude(f)))
    ELSE Mul100(f)

is_integer(f) == FracPart(f) = <<"0">>

(* "{:.0f}".format(x) for an integral x                                    *)
Format0f(f) == IntPart(f)

(* "{:.6f}".format(x).rstrip("0").rstrip(".") for x with at most six       *)
(* decimals                                                                *)
Format6f(f) == IF is_integer(f) THEN IntPart(f) ELSE f

convert_value_node(node) ==
    IF node.type = "STRING_LITERAL" THEN TOk(TransformedString(node.value.s))
    ELSE IF node.type = "CONSTANT" THEN TOk(TransformedConstant(node.value.s))
    ELSE IF node.type = "PERCENTAGE_LITERAL"
    THEN LET value == node.value.s
             percentage_sign == IF EndsWith(value, <<"%", "%">>) THEN <<"%", "%">> ELSE <<"%">>
             number == Replace(value, percentage_sign, <<>>)
         IN  IF NumberOk(number)
             THEN TOk(TransformedPercentage(FloatDiv100(PyFloatOf(number)), percentage_sign))
             ELSE TRaise("ValueError")
    ELSE TOk(node.value)

MakeComparison(left, operator, right) ==
    IF left.err # "none" THEN left
    ELSE IF right.err # "none" THEN right
    ELSE TOk(TransformedComparison(left.val, operator, right.val))

convert_comparison_node(node) ==
    MakeComparison(convert_value_node(node.left), node.operator, convert_value_node(node.right))

(* dict operations on the entry sequence                                   *)
HasKey(context, key) == \E i \in 1..Len(context) : context[i].key = key
IndexOf(context, key) == CHOOSE i \in 1..Len(context) : context[i].key = key
DictGet(context, key) == context[IndexOf(context, key)].value

(* a mapping that puts a new key in front of the others                   *)
Mut_DictSet(context, key, value) ==
    IF HasKey(context, key)
    THEN [context EXCEPT ![IndexOf(context, key)].value = value]
    ELSE <<[key |-> key, value |-> value]>> \o context

(* context[key] = value: a new key goes behind the keys the dict holds     *)
DictSet(context, key, value) ==
    IF HasKey(context, key)
    THEN [context EXCEPT ![IndexOf(context, key)].value = value]
    ELSE Append(context, [key |-> key, value |-> value])

(* NodeTransformer._store_in_context with self.always_list_keys = always.  *)
store_in_context(context, key, value, always) ==
    IF key.s \in always
    THEN IF ~HasKey(context, key) THEN DictSet(context, key, PyList(<<value>>))
         ELSE IF IsList(DictGet(context, key))
         THEN DictSet(context, key, PyList(Append(DictGet(context, key).items, value)))
         ELSE DictSet(context, key, PyList(<<DictGet(context, key), value>>))
    ELSE IF HasKey(context, key)
    THEN IF IsList(DictGet(context, key))
         THEN DictSet(context, key, PyList(Append(DictGet(context, key).items, value)))
         ELSE DictSet(context, key, PyList(<<DictGet(context, key), value>>))
    ELSE DictSet(context, key, value)

(* hash(): the Transformed* dataclasses define __eq__ and no __hash__.     *)
Hashable(v) == IsPlain(v)

(* The branches of the loop of _convert_object_node, each given the       *)
(* converted key and value of the child.                                   *)
StoreKeyValue(context, k, value, always) ==
    IF k.err # "none" THEN k
    ELSE IF value.err # "none" THEN value
    ELSE TOk(store_in_context(context, IF IsPlain(k.val) THEN k.val ELSE PyStr(k.val.s),
                              value.val, always))

StoreComparison(context, comparison) ==
    IF comparison.err # "none" THEN comparison
    ELSE IF ~Hashable(comparison.val.left) THEN TRaise("TypeError")
    ELSE TOk(DictSet(context, comparison.val.left, comparison.val))

(* context[key].append is looked up before the array is converted         *)
StoreArray(context, key, value) ==
    IF HasKey(context, key)
    THEN IF ~IsList(DictGet(context, key)) THEN TRaise("AttributeError")
         ELSE IF value.err # "none" THEN value
         ELSE TOk(DictSet(context, key, PyList(Append(DictGet(context, key).items, value.val))))
    ELSE IF value.err # "none" THEN value
         ELSE TOk(DictSet(context, key, value.val))

StoreObject(context, key, value, always) ==
    IF value.err # "none" THEN value
    ELSE TOk(store_in_context(context, key, value.val, always))

RECURSIVE convert_node(_, _), convert_array_node(_, _, _, _), convert_object_node(_, _),
          convert_children(_, _, _, _), ArrayStep(_, _, _, _, _), ChildrenStep(_, _, _, _)

(* [self._convert_node(child) for child in node.elements], from element i  *)
ArrayStep(r, elements, i, acc, always) ==
    IF r.err # "none" THEN r
    ELSE convert_array_node(elements, i + 1, Append(acc, r.val), always)

convert_array_node(elements, i, acc, always) ==
    IF i > Len(elements) THEN TOk(PyList(acc))
    ELSE ArrayStep(convert_node(elements[i], always), elements, i, acc, always)

(* _convert_node; _convert_key_value_node converts the value of the pair   *)
convert_node(node, always) ==
    IF node.n = "Value" THEN convert_value_node(node)
    ELSE IF node.n = "Comparison" THEN convert_comparison_node(node)
    ELSE IF node.n = "Array" THEN convert_array_node(node.elements, 1, <<>>, always)
    ELSE IF node.n = "KeyValue" THEN convert_node(node.value, always)
    ELSE convert_object_node(node, always)

(* One pass of the loop of _convert_object_node over child, on context.    *)
ConvertChild(context, child, always) ==
    IF child.n = "KeyValue"
    THEN StoreKeyValue(context, convert_value_node(child.key), convert_node(child, always), always)
    ELSE IF child.n = "Comparison"
    THEN StoreComparison(context, convert_comparison_node(child))
    ELSE IF child.n = "Array"
    THEN StoreArray(context, child.context.value, convert_node(child, always))
    ELSE IF child.n \in ObjectClasses
    THEN StoreObject(context, child.context.value, convert_node(child, always), always)
    ELSE TOk(context)

ChildrenStep(r, children, i, always) ==
    IF r.err # "none" THEN r
    ELSE convert_children(children, i + 1, r.val, always)

convert_children(children, i, context, always) ==
    IF i > Len(children) THEN TOk(PyDict(context))
    ELSE ChildrenStep(ConvertChild(context, children[i], always), children, i, always)

convert_object_node(node, always) == convert_children(node.children, 1, <<>>, always)

(* NodeTransformer.__init__: self.transformed_tree                         *)
NodeTransformer(parsed_tree, always_list_keys) ==
    IF parsed_tree.context.value # PyStr(<<"r", "o", "o", "t">>) THEN TRaise("ValueError")
    ELSE convert_object_node(parsed_tree, always_list_keys)

-----------------------------------------------------------------------------
(* _ClausewitzFormatter and TechCollectionGenerator                        *)
(* (scripts/generator/generator.py).  Output is a list of lines.           *)

DefaultIndent == <<"\t">>

g_indent(level) == Repeat(DefaultIndent, level)

g_escape(text) == Replace(text, <<"\"">>, <<"\\", "\"">>)

g_format_scalar(value) ==
    CASE value.k = "TransformedString" -> <<"\"">> \o g_escape(value.s) \o <<"\"">>
      [] value.k = "TransformedConstant" -> value.s
      [] value.k = "TransformedDate" -> value.s
      [] value.k = "TransformedPercentage" ->
            LET percentage == FloatMul100(value.s)
            IN  (IF is_integer(percentage) THEN Format0f(percentage) ELSE percentage)
                    \o value.sign
      [] value.k = "bool" -> IF value = PyBool(TRUE) THEN <<"y", "e", "s">> ELSE <<"n", "o">>
      [] value.k = "float" -> Format6f(value.s)
      [] value.k = "none" -> <<"0">>
      [] OTHER -> PyStrOf(value)

RECURSIVE g_block(_, _, _), g_entry(_, _, _), g_entries(_, _), g_blocks(_, _, _)

g_list(key, value, level) ==
    IF value = <<>> THEN <<g_indent(level) \o key \o <<" ", "=", " ", "{", "}">>>>
    ELSE IF \A i \in 1..Len(value) : IsDict(value[i]) THEN g_blocks(key, value, level)
    ELSE <<g_indent(level) \o key \o <<" ", "=", " ", "{">>>>
         \o [i \in 1..Len(value) |-> g_indent(level + 1) \o g_format_scalar(value[i])]
         \o <<g_indent(level) \o <<"}">>>>

g_blocks(key, items, level) ==
    IF items = <<>> THEN <<>>
    ELSE g_block(key, Head(items).entries, level) \o g_blocks(key, Tail(items), level)

g_entry(key, value, level) ==
    IF IsDict(value) THEN g_block(key, value.entries, level)
    ELSE IF IsList(value) THEN g_list(key, value.items, level)
    ELSE IF value.k = "TransformedComparison"
    THEN <<g_indent(level) \o g_format_scalar(value.left) \o <<" ">> \o value.operator.s
             \o <<" ">> \o g_format_scalar(value.right)>>
    ELSE <<g_indent(level) \o key \o <<" ", "=", " ">> \o g_format_scalar(value)>>

g_entries(entries, level) ==
    IF entries = <<>> THEN <<>>
    ELSE g_entry(PyStrOf(Head(entries).key), Head(entries).value, level)
             \o g_entries(Tail(entries), level)

g_block(name, entries, level) ==
    <<g_indent(level) \o (IF name # <<>> THEN name \o <<" ", "=", " ">> ELSE <<>>) \o <<"{">>>>
        \o g_entries(entries, level + 1)
        \o <<g_indent(level) \o <<"}">>>>

Technologies == <<"t", "e", "c", "h", "n", "o", "l", "o", "g", "i", "e", "s">>

(* TechCollectionGenerator.generate on raw_technologies, a mapping         *)
generate(technologies) ==
    Join(g_block(Technologies, technologies.entries, 0), <<"\n">>) \o <<"\n">>

-----------------------------------------------------------------------------
(* The v2 intermediate representation (scripts/generator/v2/nodes.py) and  *)
(* ClausewitzFormatter (scripts/generator/v2/formatter.py).                *)

ClausewitzComparison(left, operator, right) ==
    [k |-> "ClausewitzComparison", left |-> left, operator |-> operator, right |-> right]
ClausewitzList(values) == [k |-> "ClausewitzList", values |-> values]
ClausewitzEntry(key, value) == [key |-> key, value |-> value]
ClausewitzBlock(entries) == [k |-> "ClausewitzBlock", entries |-> entries]

ClausewitzScalar == {"str", "int", "float", "bool"}
IsScalar(v) == v.k \in ClausewitzScalar
IsBlock(v) == v.k = "ClausewitzBlock"
IsCList(v) == v.k = "ClausewitzList"
IsComparison(v) == v.k = "ClausewitzComparison"

(* str() and repr() of the pydantic models: "field=repr field=repr" and    *)
(* "Name(field=repr, field=repr)".                                         *)
RECURSIVE ModelRepr(_), ModelFields(_, _), ModelItems(_)

ModelItems(items) ==
    IF items = <<>> THEN <<>>
    ELSE IF Len(items) = 1 THEN ModelRepr(items[1])
    ELSE ModelRepr(items[1]) \o <<",", " ">> \o ModelItems(Tail(items))

ModelFields(v, sep) ==
    CASE IsCList(v) -> <<"v", "a", "l", "u", "e", "s", "=", "[">> \o ModelItems(v.values) \o <<"]">>
      [] IsBlock(v) ->
            <<"e", "n", "t", "r", "i", "e", "s", "=", "[">>
                \o ModelItems([i \in 1..Len(v.entries) |->
                                  [k |-> "ClausewitzEntry", e |-> v.entries[i]]])
                \o <<"]">>
      [] v.k = "ClausewitzEntry" ->
            <<"k", "e", "y", "=">> \o ReprStr(v.e.key) \o sep \o <<"v", "a", "l", "u", "e", "=">> \o ModelRepr(v.e.value)
      [] IsComparison(v) ->
            <<"l", "e", "f", "t", "=">> \o ModelRepr(v.left) \o sep \o <<"o", "p", "e", "r", "a", "t", "o", "r", "=">> \o ReprStr(v.operator)
                \o sep \o <<"r", "i", "g", "h", "t", "=">> \o ModelRepr(v.right)

ModelRepr(v) ==
    IF IsScalar(v) \/ IsTransformedScalar(v) THEN PyRepr(v)
    ELSE v.k \o <<"(">> \o ModelFields(v, <<",", " ">>) \o <<")">>

ModelStr(v) ==
    IF IsScalar(v) \/ IsTransformedScalar(v) THEN PyStrOf(v) ELSE ModelFields(v, <<" ">>)

(* a formatter object: the dataclass fields indent and inline_braces       *)
NewFormatter(inline_braces) == [indent |-> <<"\t">>, inline_braces |-> inline_braces]

(* what a formatting call gives: lines (or one text), or ValueError raised *)
FOk(lines) == [err |-> "none", lines |-> lines]
FRaise == [err |-> "ValueError", lines |-> <<>>]
FCat(a, b) ==
    IF a.err # "none" THEN a ELSE IF b.err # "none" THEN b ELSE FOk(a.lines \o b.lines)
FText(a) == a.lines[1]

(* an indentation that lags one level behind                             *)
Mut_indent(F, level) == IF level <= 1 THEN <<>> ELSE Repeat(F.indent, level - 1)

indent(F, level) == IF level <= 0 THEN <<>> ELSE Repeat(F.indent, level)

StringPrefix == <<"s", "t", "r", "i", "n", "g", "(">>

Allowed == Letters \cup Digits \cup {"_", ".", "/", "@", ":"}

needs_quotes(text) ==
    IF text = <<>> THEN TRUE
    ELSE \E i \in 1..Len(text) : isspace(text[i]) \/ text[i] \notin Allowed

StartsWith(s, prefix) == Len(s) >= Len(prefix) /\ SubSeq(s, 1, Len(prefix)) = prefix

format_scalar(value) ==
    IF value.k = "bool" THEN (IF value = PyBool(TRUE) THEN <<"y", "e", "s">> ELSE <<"n", "o">>)
    ELSE IF value.k = "str"
    THEN IF StartsWith(value.s, StringPrefix) /\ EndsWith(value.s, <<")">>)
         THEN <<"\"">> \o SubSeq(value.s, Len(StringPrefix) + 1, Len(value.s) - 1) \o <<"\"">>
         ELSE IF needs_quotes(value.s)
         THEN <<"\"">> \o Replace(value.s, <<"\"">>, <<"\\", "\"">>) \o <<"\"">>
         ELSE value.s
    ELSE ModelStr(value)

format_comparison(comparison) ==
    IF IsComparison(comparison.right) \/ IsBlock(comparison.right) THEN FRaise
    ELSE FOk(<<ModelStr(comparison.left) \o <<" ">> \o comparison.operator \o <<" ">>
                 \o format_scalar(comparison.right)>>)

can_inline_block(block) ==
    Len(block.entries) = 1 /\ IsScalar(block.entries[1].value)

MaxInlineList == 8

(* an inlining rule without the bound on the length of the list           *)
Mut_can_inline_list(value) ==
    /\ value.values # <<>>
    /\ \A i \in 1..Len(value.values) : IsScalar(value.values[i])

can_inline_list(value) ==
    /\ value.values # <<>>
    /\ Len(value.values) <= MaxInlineList
    /\ \A i \in 1..Len(value.values) : IsScalar(value.values[i])

format_inline_block(block) ==
    IF ~can_inline_block(block) THEN FRaise
    ELSE FOk(<<block.entries[1].key \o <<" ", "=", " ">> \o format_scalar(block.entries[1].value)>>)

(* " ".join(texts) of results, raising when one of them raised             *)
RECURSIVE JoinResults(_)
JoinResults(rs) ==
    IF rs = <<>> THEN FOk(<<<<>>>>)
    ELSE IF Len(rs) = 1 THEN rs[1]
    ELSE LET rest == JoinResults(Tail(rs))
         IN  IF rs[1].err # "none" THEN rs[1] ELSE IF rest.err # "none" THEN rest
             ELSE FOk(<<FText(rs[1]) \o <<" ">> \o FText(rest)>>)

Braced(prefix, inner) ==
    IF inner.err # "none" THEN inner
    ELSE FOk(<<prefix \o <<" ", "=", " ", "{", " ">> \o FText(inner) \o <<" ", "}">>>>)

RECURSIVE format_inline_entry(_, _)
format_inline_entry(key, value) ==
    IF IsBlock(value) /\ can_inline_block(value)
    THEN Braced(key, format_inline_entry(value.entries[1].key, value.entries[1].value))
    ELSE IF IsCList(value) /\ can_inline_list(value)
    THEN Braced(key, JoinResults([i \in 1..Len(value.values) |->
                                     FOk(<<format_scalar(value.values[i])>>)]))
    ELSE IF IsComparison(value)
    THEN LET c == format_comparison(value)
         IN  IF c.err # "none" THEN c ELSE FOk(<<key \o <<" ", "=", " ">> \o FText(c)>>)
    ELSE FOk(<<key \o <<" ", "=", " ">> \o format_scalar(value)>>)

Indented(F, level, r) ==
    IF r.err # "none" THEN r ELSE FOk(<<indent(F, level) \o FText(r)>>)

RECURSIVE format_block(_, _, _, _), format_entry(_, _, _, _), format_list(_, _, _, _),
          format_entries(_, _, _), format_items(_, _, _)

format_entries(F, entries, level) ==
    IF entries = <<>> THEN FOk(<<>>)
    ELSE FCat(format_entry(F, Head(entries).key, Head(entries).value, level),
              format_entries(F, Tail(entries), level))

format_block(F, name, block, level) ==
    IF F.inline_braces /\ can_inline_block(block)
    THEN Indented(F, level,
             Braced(name, JoinResults([i \in 1..Len(block.entries) |->
                 format_inline_entry(block.entries[i].key, block.entries[i].value)])))
    ELSE FCat(FOk(<<indent(F, level) \o name \o <<" ", "=", " ", "{">>>>),
         FCat(format_entries(F, block.entries, level + 1),
              FOk(<<indent(F, level) \o <<"}">>>>)))

format_entry(F, key, value, level) ==
    IF IsBlock(value) THEN format_block(F, key, value, level)
    ELSE IF IsCList(value) THEN format_list(F, key, value, level)
    ELSE IF IsComparison(value) THEN Indented(F, level, format_comparison(value))
    ELSE FOk(<<indent(F, level) \o key \o <<" ", "=", " ">> \o format_scalar(value)>>)

(* the loop of _format_list over the items of a multi-line list            *)
format_items(F, items, level) ==
    IF items = <<>> THEN FOk(<<>>)
    ELSE LET item == Head(items)
             this == IF IsBlock(item)
                     THEN FCat(FOk(<<indent(F, level + 1) \o <<"{">>>>),
                          FCat(format_entries(F, item.entries, level + 2),
                               FOk(<<indent(F, level + 1) \o <<"}">>>>)))
                     ELSE IF IsComparison(item)
                     THEN Indented(F, level + 1, format_comparison(item))
                     ELSE FOk(<<indent(F, level + 1) \o format_scalar(item)>>)
         IN  FCat(this, format_items(F, Tail(items), level))

(* a formatter that puts every list on one line when inlining is enabled  *)
Mut_format_list(F, key, value, level) ==
    IF value.values = <<>> THEN FOk(<<indent(F, level) \o key \o <<" ", "=", " ", "{", "}">>>>)
    ELSE IF F.inline_braces
    THEN Indented(F, level,
             Braced(key, JoinResults([i \in 1..Len(value.values) |->
                 IF ~IsBlock(value.values[i]) THEN FOk(<<format_scalar(value.values[i])>>)
                 ELSE format_inline_block(value.values[i])])))
    ELSE FCat(FOk(<<indent(F, level) \o key \o <<" ", "=", " ", "{">>>>),
         FCat(format_items(F, value.values, level),
              FOk(<<indent(F, level) \o <<"}">>>>)))

format_list(F, key, value, level) ==
    IF value.values = <<>> THEN FOk(<<indent(F, level) \o key \o <<" ", "=", " ", "{", "}">>>>)
    ELSE IF F.inline_braces /\ can_inline_list(value)
    THEN Indented(F, level,
             Braced(key, JoinResults([i \in 1..Len(value.values) |->
                 IF ~IsBlock(value.values[i]) THEN FOk(<<format_scalar(value.values[i])>>)
                 ELSE format_inline_block(value.values[i])])))
    ELSE FCat(FOk(<<indent(F, level) \o key \o <<" ", "=", " ", "{">>>>),
         FCat(format_items(F, value.values, level),
              FOk(<<indent(F, level) \o <<"}">>>>)))

-----------------------------------------------------------------------------
(* Bounds of the lexer machine.                                            *)

MaxInputLen == 4
MaxCalls == 2

LexAlphabet == {"a", "1", " ", "{", "=", "\"", "#", "@", ".", "!"}

RECURSIVE SeqsUpTo(_, _)
SeqsUpTo(S, n) ==
    IF n = 0 THEN {<<>>}
    ELSE LET shorter == SeqsUpTo(S, n - 1)
         IN  shorter \cup {Append(s, c) : s \in {t \in shorter : Len(t) = n - 1}, c \in S}

LexInputs == SeqsUpTo(LexAlphabet, MaxInputLen)

PipeIdle == pc = "idle" /\ pipe = <<>>

LexInit ==
    /\ \E text \in LexInputs, auto \in BOOLEAN :
          LET r == LexerInit(text, auto)
          IN  /\ lexer = r.obj
              /\ lexret = r.ret
              /\ ncalls = IF auto THEN 1 ELSE 0
    /\ PipeIdle

(* An explicit tokenize() call on the lexer object.                        *)
Tokenize ==
    /\ ncalls < MaxCalls
    /\ lexret \in {"notcalled", "tokens", "empty"}
    /\ LET r == tokenize(lexer)
       IN  /\ lexer' = r.obj
           /\ lexret' = r.ret
    /\ ncalls' = ncalls + 1
    /\ UNCHANGED <<pc, pipe>>

LexNext == Tokenize

SpecLex == LexInit /\ [][LexNext]_vars

-----------------------------------------------------------------------------
EOFCount(tokens) == Cardinality({i \in 1..Len(tokens) : tokens[i].token_type = "EOF"})

(* C10: whenever tokenize returned its tokens, the token list holds exactly *)
(* one EOF token and it is the last one, after any number of calls.        *)
C10_SingleEOF ==
    lexret = "tokens" =>
        /\ EOFCount(lexer.tokens) = 1
        /\ lexer.tokens[Len(lexer.tokens)].token_type = "EOF"

(* line and column, 1-based, of the character at 0-based index p of text  *)
LineOf(text, p) == 1 + Cardinality({i \in 1..p : text[i] = "\n"})
ColumnOf(text, p) ==
    LET breaks == {i \in 1..p : text[i] = "\n"}
    IN  IF breaks = {} THEN p + 1
        ELSE p + 1 - CHOOSE i \in breaks : \A j \in breaks : j <= i

(* one pass of the dispatch loop, started at index p of the text, consumes *)
(* at least one character or fails, and stays within the text              *)
StepConsumes(text, p) ==
    LET R == LexStep([NewLexer(text) EXCEPT !.position = p])
    IN  /\ R.position <= Len(text)
        /\ R.err # "none" \/ R.position > p

(* C11: tokenize is total: every pass of its loop consumes a character or  *)
(* fails, the cursor stays within the text, and a call ends by returning   *)
(* the tokens or with a LexerError that carries a line and a column; no    *)
(* other failure occurs.                                                   *)
C11_TokenizeTotal ==
    ncalls > 0 =>
        /\ \A p \in 0..(Len(lexer.input) - 1) : StepConsumes(lexer.input, p)
        /\ lexer.position <= Len(lexer.input)
        /\ lexret \in {"tokens", "empty"}
        /\ lexret = "empty" => lexer.raised.line >= 1 /\ lexer.raised.column >= 1

(* a character that no branch of the dispatch loop accepts                 *)
Unaccepted(c) ==
    ~(\/ is_whitespace(c) \/ c \in {"#", "{", "}", "\"", "'"} \/ isdigit(c)
      \/ is_operator(<<c>>) \/ isalpha(c) \/ c \in {"_", "-", ".", "@"})

(* C12: when the lexer meets a character no rule accepts, the caller of    *)
(* tokenize receives a LexerError with the line and column of that         *)
(* character, and no empty or partial token list in its place.             *)
C12_LexerErrorsReachCaller ==
    (ncalls = 1 /\ lexret # "ValueError" /\ has_more_chars(lexer) /\ Unaccepted(char(lexer))) =>
        /\ lexret = "LexerError"
        /\ lexer.raised = LexerError("Unexpected character",
                                     LineOf(lexer.input, lexer.position),
                                     ColumnOf(lexer.input, lexer.position))

(* a scan of the text for string literals: the index of the quote that     *)
(* opened a string still open at the end of the text (0 when none is), and *)
(* the number of strings that were closed; a comment runs to the end of    *)
(* its line                                                                *)
RECURSIVE StringScan(_, _, _, _, _)
StringScan(text, i, mode, open, closed) ==
    IF i > Len(text) THEN [open |-> IF mode \in {"\"", "'"} THEN open ELSE 0, closed |-> closed]
    ELSE LET c == text[i]
         IN  IF mode = "comment"
             THEN StringScan(text, i + 1, IF c = "\n" THEN "code" ELSE mode, open, closed)
             ELSE IF mode \in {"\"", "'"}
             THEN IF c = mode THEN StringScan(text, i + 1, "code", 0, closed + 1)
                  ELSE StringScan(text, i + 1, mode, open, closed)
             ELSE IF c = "#" THEN StringScan(text, i + 1, "comment", open, closed)
             ELSE IF c \in {"\"", "'"} THEN StringScan(text, i + 1, c, i, closed)
             ELSE StringScan(text, i + 1, mode, open, closed)

Strings(text) == StringScan(text, 1, "code", 0, 0)

StringTokens(tokens) ==
    Cardinality({i \in 1..Len(tokens) : tokens[i].token_type = "STRING_LITERAL"})

(* C13: when a quote opens a string that is not closed before the end of   *)
(* the text, tokenize fails with an unterminated-string LexerError naming  *)
(* the line and column of that string, and emits no token for the string.  *)
C13_UnterminatedString ==
    (ncalls = 1 /\ Strings(lexer.input).open > 0 /\ lexer.position = Len(lexer.input)) =>
        /\ lexret = "LexerError"
        /\ lexer.raised = LexerError("Unterminated string",
                                     LineOf(lexer.input, Strings(lexer.input).open - 1),
                                     ColumnOf(lexer.input, Strings(lexer.input).open - 1))
        /\ StringTokens(lexer.tokens) = Strings(lexer.input).closed

-----------------------------------------------------------------------------
(* the operator set the claim names                                        *)
OperatorSet == OPERATORS \ {<<"@">>}

OperatorTokens(tokens) ==
    {i \in 1..Len(tokens) : tokens[i].token_type = "OPERATOR"}

(* C19: every OPERATOR token has a value in the operator set, and a text   *)
(* that is one member of the set, "!=" included, is lexed as that one      *)
(* OPERATOR token.                                                         *)
C19_OperatorTokens ==
    ncalls = 1 =>
        /\ \A i \in OperatorTokens(lexer.tokens) :
              lexer.tokens[i].value.k = "str" /\ lexer.tokens[i].value.s \in OperatorSet
        /\ lexer.input \in OperatorSet =>
              /\ lexret = "tokens"
              /\ OperatorTokens(lexer.tokens) = {1}
              /\ lexer.tokens[1].value = PyStr(lexer.input)

-----------------------------------------------------------------------------
(* The text pipeline: ParserManager wires Lexer -> Parser -> NodeTransformer, *)
(* TechCollection takes the technologies mapping of the normalized tree and *)
(* TechCollectionGenerator.generate prints it.  A second pass runs the same *)
(* stages on the text the first pass printed.                              *)

MaxPasses == 2
MaxItems == 2
MaxChildren == 2

Sp == <<" ">>

(* children of a nested block                                              *)
BlockLeaves ==
    {<<"a", " ", "=", " ", "1">>, <<"a", " ", "=", " ", "2">>, <<"b", " ", "=", " ", "x">>, <<"@", "c", " ", "=", " ", "1">>, <<"1">>}

(* entries of a technology                                                 *)
Leaves ==
    {<<"a", " ", "=", " ", "1">>, <<"a", " ", "=", " ", "2">>, <<"b", " ", "=", " ", "x">>, <<"@", "c", " ", "=", " ", "1">>, <<"1">>, <<"r", "k", " ", "=", " ", "1">>, <<"a", " ", ">", " ", "1">>, <<"a", " ", "=", " ", "5", "%">>,
     <<"b", " ", "=", " ", "\"", "s", " ", "t", "\"">>}

BlockKeys == {<<"a">>, <<"t", "r">>}

BraceGroup(key, body) == key \o <<" ", "=", " ", "{", " ">> \o body \o <<" ", "}">>

BlockItems ==
    {BraceGroup(key, Join(s, Sp)) : key \in BlockKeys, s \in SeqsUpTo(BlockLeaves, MaxChildren)}

Items == Leaves \cup BlockItems

(* a key met three times, with a scalar, a block or a brace list each time *)
RepeatedValues == {<<"a", " ", "=", " ", "1">>, <<"a", " ", "=", " ", "{", " ", "b", " ", "=", " ", "1", " ", "}">>, <<"a", " ", "=", " ", "{", " ", "1", " ", "2", " ", "}">>}
RepeatedBodies == {Join(s, Sp) : s \in [1..3 -> RepeatedValues]}

TechBodies == {Join(s, Sp) : s \in SeqsUpTo(Items, MaxItems)} \cup RepeatedBodies

RootPrefixes == {<<>>, <<"@", "c", " ", "=", " ", "1", " ">>}

PipeDocs ==
    {BraceGroup(Technologies, BraceGroup(<<"t">>, body)) : body \in TechBodies}
        \cup {prefix \o BraceGroup(Technologies, BraceGroup(<<"t">>, body)) :
                  prefix \in RootPrefixes, body \in Leaves \cup {<<>>}}

NoLexer == NewLexer(<<>>)

NewPipe(text) ==
    [pass |-> 1, input |-> text, tree |-> NoNode, norm |-> PyNone, raw |-> PyNone,
     out |-> <<>>, err |-> "none", at |-> "none", source |-> text, norm1 |-> PyNone, out1 |-> <<>>]

PipeInit ==
    /\ \E text \in PipeDocs : pipe = NewPipe(text)
    /\ pc = "lex"
    /\ lexer = NoLexer
    /\ lexret = "notcalled"
    /\ ncalls = 0

(* an exception leaves the stage it was raised in                           *)
Fail(kind) == pc' = "failed" /\ pipe' = [pipe EXCEPT !.err = kind, !.at = pc]

(* ParserManager.__init__: Lexer(input), which tokenizes at construction   *)
LexStage ==
    /\ pc = "lex"
    /\ LET r == LexerInit(pipe.input, TRUE)
       IN  /\ lexer' = r.obj
           /\ lexret' = r.ret
           /\ IF r.ret = "ValueError" THEN Fail("ValueError")
              ELSE pc' = "parse" /\ UNCHANGED pipe
    /\ ncalls' = ncalls + 1

(* ParserManager.__init__: Parser(tokens = lexer.tokens)                   *)
ParseStage ==
    /\ pc = "parse"
    /\ LET r == parse_tokens(lexer.tokens)
       IN  IF r.err # "none" THEN Fail(r.err)
           ELSE pc' = "normalize" /\ pipe' = [pipe EXCEPT !.tree = r.node]
    /\ UNCHANGED <<lexer, lexret, ncalls>>

(* ParserManager.__init__: NodeTransformer(parser.parsed_tree), with no    *)
(* always_list_keys                                                        *)
NormalizeStage ==
    /\ pc = "normalize"
    /\ LET r == NodeTransformer(pipe.tree, {})
       IN  IF r.err # "none" THEN Fail(r.err)
           ELSE pc' = "collect" /\ pipe' = [pipe EXCEPT !.norm = r.val]
    /\ UNCHANGED <<lexer, lexret, ncalls>>

(* transformed_tree.get("technologies", {})                                *)
raw_technologies(tree) ==
    IF HasKey(tree.entries, PyStr(Technologies)) THEN DictGet(tree.entries, PyStr(Technologies))
    ELSE PyDict(<<>>)

ConstantsKey == PyStr(<<"_", "c", "o", "n", "s", "t", "a", "n", "t", "s">>)

(* TechCollection._from_transformed_tree, as far as it can raise on the    *)
(* documents of PipeDocs: no technology at all, a technologies value that  *)
(* is no mapping, a technology that is no mapping.                         *)
from_transformed_tree(technologies_tree) ==
    IF technologies_tree \in {PyDict(<<>>), PyList(<<>>)} THEN "ValueError"
    ELSE IF ~IsDict(technologies_tree) THEN "AttributeError"
    ELSE LET techs == SelectSeq(technologies_tree.entries, LAMBDA e : e.key # ConstantsKey)
         IN  IF \E i \in 1..Len(techs) : IsList(techs[i].value) THEN "TypeError"
             ELSE IF \E i \in 1..Len(techs) : ~IsDict(techs[i].value) THEN "AttributeError"
             ELSE "none"

(* TechCollection.__init__                                                 *)
CollectStage ==
    /\ pc = "collect"
    /\ LET raw == raw_technologies(pipe.norm)
           err == from_transformed_tree(raw)
       IN  IF err # "none" THEN Fail(err)
           ELSE pc' = "generate" /\ pipe' = [pipe EXCEPT !.raw = raw]
    /\ UNCHANGED <<lexer, lexret, ncalls>>

(* TechCollectionGenerator.generate                                        *)
GenerateStage ==
    /\ pc = "generate"
    /\ pc' = "done"
    /\ pipe' = [pipe EXCEPT !.out = generate(pipe.raw)]
    /\ UNCHANGED <<lexer, lexret, ncalls>>

(* the printed text is given to the pipeline again                         *)
FeedBack ==
    /\ pc = "done"
    /\ pipe.pass < MaxPasses
    /\ pc' = "lex"
    /\ pipe' = [pipe EXCEPT !.pass = pipe.pass + 1, !.input = pipe.out,
                            !.norm1 = pipe.norm, !.out1 = pipe.out,
                            !.tree = NoNode, !.norm = PyNone, !.raw = PyNone]
    /\ UNCHANGED <<lexer, lexret, ncalls>>

PipeNext ==
    \/ LexStage
    \/ ParseStage
    \/ NormalizeStage
    \/ CollectStage
    \/ GenerateStage
    \/ FeedBack

SpecPipe == PipeInit /\ [][PipeNext]_vars

-----------------------------------------------------------------------------
(* Properties of the pipeline.                                             *)

(* every block node of a parse tree, the tree's root included              *)
RECURSIVE Blocks(_)
Blocks(node) ==
    IF node.n \notin ObjectClasses THEN {}
    ELSE {node} \cup UNION {Blocks(node.children[i]) : i \in 1..Len(node.children)}

Parsed == pipe.tree # NoNode
Normalized == pipe.norm # PyNone
FirstPass == pipe.pass = 1
SecondPassEnded == pipe.pass = 2 /\ pc \in {"done", "failed"}

(* C1: a document the pipeline accepts is printed again byte for byte when *)
(* the pipeline is run on its own output.                                  *)
C1_IdempotentRoundTrip ==
    SecondPassEnded => pc = "done" /\ pipe.out = pipe.out1

(* C2: the printed text of an accepted document lexes, parses and          *)
(* normalizes again without error, to the tree it was printed from.        *)
C2_Reparseable ==
    /\ (pipe.pass = 2 /\ pc = "failed") => pipe.at = "collect"
    /\ (pipe.pass = 2 /\ Normalized) =>
           raw_technologies(pipe.norm) = raw_technologies(pipe.norm1)

(* the children of block that give a value to key, in encounter order      *)
KeyOf(child) ==
    IF child.n = "KeyValue" THEN PyStr(child.key.value.s)
    ELSE IF child.n \in ObjectClasses \cup {"Array"} THEN child.context.value
    ELSE PyNone
Occurrences(block, key) == SelectSeq(block.children, LAMBDA c : KeyOf(c) = key)
KeysOf(block) == {KeyOf(block.children[i]) : i \in 1..Len(block.children)} \ {PyNone}
HasComparison(block) == \E i \in 1..Len(block.children) : block.children[i].n = "Comparison"

(* the normalized mapping of a block of the tree the pipeline holds        *)
NormOfBlock(block) ==
    IF block = pipe.tree THEN pipe.norm ELSE convert_object_node(block, {}).val
NormOfChild(child) == convert_node(child, {}).val
NormsOf(children) == [i \in 1..Len(children) |-> NormOfChild(children[i])]

(* C3: a key that is not flagged repeatable normalizes to its value when   *)
(* it occurs once in a block, and to the list of its n values in encounter *)
(* order when it occurs n >= 2 times, whatever the values are.             *)
C3_MergeLaw ==
    (FirstPass /\ Normalized) =>
        \A block \in Blocks(pipe.tree) :
            ~HasComparison(block) =>
                \A key \in KeysOf(block) :
                    key.s \notin repeatable_keys =>
                        LET occ == Occurrences(block, key)
                            norm == NormOfBlock(block).entries
                        IN  /\ HasKey(norm, key)
                            /\ DictGet(norm, key) =
                                   IF Len(occ) = 1 THEN NormOfChild(occ[1])
                                   ELSE PyList(NormsOf(occ))

(* C4: a key of the vocabulary's repeatable_keys normalizes, in every      *)
(* block, to a list with one element per occurrence.                       *)
C4_RepeatableIsList ==
    (FirstPass /\ Normalized) =>
        \A block \in Blocks(pipe.tree) :
            ~HasComparison(block) =>
                \A key \in KeysOf(block) :
                    key.s \in repeatable_keys =>
                        /\ HasKey(NormOfBlock(block).entries, key)
                        /\ DictGet(NormOfBlock(block).entries, key) =
                               PyList(NormsOf(Occurrences(block, key)))

IsConstantName(key) == key.k = "str" /\ key.s # <<>> /\ Head(key.s) = "@"

(* a normalized mapping holds no constant under its direct keys, and its   *)
(* _constants mapping, when there is one, comes first, is not empty and    *)
(* holds constants only; the same in every mapping below it                *)
RECURSIVE WellHoisted(_)
WellHoisted(v) ==
    IF IsList(v) THEN \A i \in 1..Len(v.items) : WellHoisted(v.items[i])
    ELSE IF ~IsDict(v) THEN TRUE
    ELSE \A i \in 1..Len(v.entries) :
            LET e == v.entries[i]
            IN  /\ ~IsConstantName(e.key)
                /\ IF e.key = ConstantsKey
                   THEN /\ i = 1
                        /\ IsDict(e.value)
                        /\ e.value.entries # <<>>
                        /\ \A j \in 1..Len(e.value.entries) :
                               IsConstantName(e.value.entries[j].key)
                   ELSE WellHoisted(e.value)

(* C5: in every block, the root block included, a pair whose key is a      *)
(* constant reference is absent from the block's direct keys and sits in   *)
(* the block's _constants mapping, which is the block's first entry.       *)
C5_ConstantsHoisted ==
    (FirstPass /\ Normalized) => WellHoisted(pipe.norm)

TriggerBlocks == {b \in Blocks(pipe.tree) : b.n = "TriggerBlock"}

IsEqualsComparison(node) == node.n = "Comparison" /\ node.operator = EqualsSign

(* the "=" comparisons in a tree                                           *)
RECURSIVE EqualsComparisons(_)
EqualsComparisons(node) ==
    IF node.n \notin ObjectClasses THEN 0
    ELSE LET own == Cardinality({i \in 1..Len(node.children) :
                                     IsEqualsComparison(node.children[i])})
             RECURSIVE Below(_)
             Below(i) == IF i > Len(node.children) THEN 0
                         ELSE EqualsComparisons(node.children[i]) + Below(i + 1)
         IN  own + Below(1)

(* the key = value pairs of a token list that stand directly inside the    *)
(* braces of a TRIGGER token: a scan that keeps, for every open brace, the *)
(* type of the token the brace group belongs to                            *)
RECURSIVE TriggerPairs(_, _, _)
TriggerPairs(toks, i, stack) ==
    IF i > Len(toks) THEN 0
    ELSE LET t == toks[i]
             context == IF i > 1 /\ toks[i - 1].value = EqualsSign /\ i > 2 THEN toks[i - 2]
                        ELSE IF i > 1 THEN toks[i - 1] ELSE t
             pair == /\ stack # <<>> /\ Head(stack) = "TRIGGER"
                     /\ i + 2 <= Len(toks)
                     /\ t.token_type \in KeyTypes
                     /\ toks[i + 1].token_type = "OPERATOR" /\ toks[i + 1].value = EqualsSign
                     /\ toks[i + 2].token_type \in LiteralShaped
                     /\ (i > 1 => toks[i - 1].token_type # "OPERATOR")
         IN  IF t.token_type = "OPEN_BRACE"
             THEN TriggerPairs(toks, i + 1, <<context.token_type>> \o stack)
             ELSE IF t.token_type = "CLOSE_BRACE"
             THEN TriggerPairs(toks, i + 1, IF stack = <<>> THEN stack ELSE Tail(stack))
             ELSE (IF pair THEN 1 ELSE 0) + TriggerPairs(toks, i + 1, stack)

(* C7: every key = value child directly inside a block whose context is a  *)
(* TRIGGER token is held as a comparison with operator "=", left the key   *)
(* and right the value, in the parse tree and in the normalized mapping.   *)
C7_TriggerPairsAreComparisons ==
    /\ Parsed =>
          /\ \A b \in TriggerBlocks :
                 \A i \in 1..Len(b.children) : ~IsKeyValueNode(b.children[i])
          /\ \A b \in Blocks(pipe.tree) \ TriggerBlocks :
                 \A i \in 1..Len(b.children) : ~IsEqualsComparison(b.children[i])
          /\ EqualsComparisons(pipe.tree) = TriggerPairs(strip_comments(lexer.tokens), 1, <<>>)
    /\ Normalized =>
          \A b \in TriggerBlocks :
              \A i \in 1..Len(b.children) :
                  IsEqualsComparison(b.children[i]) =>
                      LET left == convert_value_node(b.children[i].left).val
                          norm == NormOfBlock(b).entries
                      IN  /\ HasKey(norm, left)
                          /\ \E j \in 1..Len(b.children) :
                                 /\ IsEqualsComparison(b.children[j])
                                 /\ DictGet(norm, left) =
                                        TransformedComparison(left, EqualsSign,
                                            convert_value_node(b.children[j].right).val)

(* a first pass has normalized "tr = { b = x }" to the comparison b = x    *)
C7_Witness ==
    /\ FirstPass /\ Normalized
    /\ \E b \in TriggerBlocks :
           /\ Len(b.children) = 1
           /\ NormOfBlock(b) =
                  PyDict(<<[key |-> PyStr(<<"b">>),
                            value |-> TransformedComparison(PyStr(<<"b">>), EqualsSign,
                                                            PyStr(<<"x">>))]>>)

-----------------------------------------------------------------------------
(* The classifier on its own: Parser._get_identifier_type, and the parse   *)
(* routine _parse picks by it, on an identifier-class token followed by up *)
(* to MaxLookahead tokens and EOF.                                         *)

MaxLookahead == 2

Tok(type, value) == Token(type, value, 1, 1)

FirstTokens == {Tok(type, PyStr(<<"k">>)) : type \in IdentifierTypes}

OperatorTexts == {<<"=">>, <<">">>, <<"<">>, <<">", "=">>, <<"<", "=">>, <<"!", "=">>,
                  <<":">>, <<"?">>}

OpenBrace == Tok("OPEN_BRACE", PyStr(<<"{">>))
CloseBrace == Tok("CLOSE_BRACE", PyStr(<<"}">>))

SecondTokens ==
    {OpenBrace, CloseBrace, Tok("NUMBER_LITERAL", PyIntV(<<"5">>)),
     Tok("IDENTIFIER", PyStr(<<"b">>)), Tok("STRING_LITERAL", PyStr(<<"=">>))}
        \cup {Tok("OPERATOR", PyStr(op)) : op \in OperatorTexts}

ThirdTokens ==
    {OpenBrace, CloseBrace, Tok("NUMBER_LITERAL", PyIntV(<<"5">>)),
     Tok("IDENTIFIER", PyStr(<<"b">>)), Tok("STRING_LITERAL", PyStr(<<"s">>)),
     Tok("BOOLEAN", PyBool(TRUE)), Tok("OPERATOR", EqualsSign),
     Tok("TRIGGER", PyStr(<<"t", "r">>)), Tok("KEYWORD", PyStr(<<"k", "w">>)),
     Tok("PERCENTAGE_LITERAL", PyStr(<<"5", "%">>))}

EOFToken == Tok("EOF", PyNone)

ClassifyInputs ==
    {<<a>> \o SubSeq(<<b, c>>, 1, n) \o <<EOFToken>> :
        a \in FirstTokens, b \in SecondTokens, c \in ThirdTokens, n \in 0..MaxLookahead}

ClassifyInit ==
    /\ \E toks \in ClassifyInputs :
           pipe = [tokens |-> toks, class |-> "none", result |-> PRaise("none", 0)]
    /\ pc = "classify"
    /\ lexer = NoLexer
    /\ lexret = "notcalled"
    /\ ncalls = 0

(* Parser._get_identifier_type with the cursor on the first token          *)
Classify ==
    /\ pc = "classify"
    /\ pc' = "classified"
    /\ pipe' = [pipe EXCEPT !.class = get_identifier_type(pipe.tokens, 0)]
    /\ UNCHANGED <<lexer, lexret, ncalls>>

(* Parser._parse with the cursor on the first token                        *)
ParseConstruct ==
    /\ pc = "classified"
    /\ pc' = "parsed"
    /\ pipe' = [pipe EXCEPT !.result = parse(pipe.tokens, 0)]
    /\ UNCHANGED <<lexer, lexret, ncalls>>

ClassifyNext ==
    \/ Classify
    \/ ParseConstruct

SpecClassify == ClassifyInit /\ [][ClassifyNext]_vars

RelationalOperators == {<<">">>, <<"<">>, <<">", "=">>, <<"<", "=">>, <<"!", "=">>}

IsEquals(t) == t.token_type = "OPERATOR" /\ t.value = EqualsSign
IsRelational(t) == t.token_type = "OPERATOR" /\ t.value.s \in RelationalOperators

(* the four-way rule, read off the next two tokens                         *)
FourWay(next, after) ==
    IF next.token_type = "OPEN_BRACE" \/ (IsEquals(next) /\ after.token_type = "OPEN_BRACE")
    THEN "object"
    ELSE IF IsEquals(next) /\ after.token_type \in LiteralShaped THEN "key_value_pair"
    ELSE IF IsRelational(next) THEN "comparison"
    ELSE "value"

(* C6: an identifier-class token is an object iff "{" or "= {" follows, a  *)
(* key/value pair iff "=" and a literal-shaped token follow, a comparison  *)
(* iff one of > < >= <= != follows, and a value in every other case.       *)
C6_FourWayClassification ==
    pc = "classified" =>
        pipe.class = FourWay(lookahead(pipe.tokens, 0, 1), lookahead(pipe.tokens, 0, 2))

-----------------------------------------------------------------------------
(* the node class a parse routine builds for a class of the classifier     *)
ClassNodes(class) ==
    CASE class = "key_value_pair" -> {"KeyValue"}
      [] class = "comparison" -> {"Comparison"}
      [] class = "object" -> ObjectClasses \cup {"Array"}
      [] OTHER -> {"Value"}

ClaimedFirstKinds == {"IDENTIFIER", "CONSTANT", "KEYWORD", "SCOPE", "MODIFIER", "EFFECT", "TRIGGER"}

(* the tokens at the cursor are a whole construct of the class: the three  *)
(* tokens the classifier looked at, or a group that is closed at once      *)
WholeConstruct(toks, class) ==
    /\ Len(toks) = 4
    /\ toks[1].token_type \in ClaimedFirstKinds
    /\ \/ class = "key_value_pair"
       \/ class = "comparison" /\ toks[3].token_type \in LiteralShaped
       \/ class = "object" /\ toks[2].token_type = "OPEN_BRACE" /\ toks[3].token_type = "CLOSE_BRACE"

(* C23: when the classifier says key_value_pair, comparison or object, the *)
(* routine chosen for that class takes the tokens the classifier looked at *)
(* and returns a node of that class without raising, for every             *)
(* identifier-class kind of the first token.                               *)
C23_ClassifierAndParserAgree ==
    (pc = "parsed" /\ WholeConstruct(pipe.tokens, pipe.class)) =>
        /\ pipe.result.err = "none"
        /\ pipe.result.node.n \in ClassNodes(pipe.class)
        /\ pipe.result.pos = 3

-----------------------------------------------------------------------------
(* The parser on its own: Parser.__init__ given a token sequence that ends *)
(* with EOF, as the lexer hands it over.                                   *)

MaxTokens == 5
MaxBody == 4

ParseWords ==
    {[type |-> "IDENTIFIER", value |-> PyStr(<<"a">>)],
     [type |-> "NUMBER_LITERAL", value |-> PyIntV(<<"1">>)],
     [type |-> "OPERATOR", value |-> EqualsSign],
     [type |-> "OPERATOR", value |-> PyStr(<<">">>)],
     [type |-> "OPEN_BRACE", value |-> PyStr(<<"{">>)],
     [type |-> "CLOSE_BRACE", value |-> PyStr(<<"}">>)]}

GroupOpening ==
    <<[type |-> "IDENTIFIER", value |-> PyStr(<<"a">>)],
      [type |-> "OPERATOR", value |-> EqualsSign],
      [type |-> "OPEN_BRACE", value |-> PyStr(<<"{">>)]>>
GroupClosing == <<[type |-> "CLOSE_BRACE", value |-> PyStr(<<"}">>)]>>

(* the i-th word of a line becomes a token at line 1, column i             *)
Place(words) ==
    [i \in 1..Len(words) + 1 |->
        IF i <= Len(words) THEN Token(words[i].type, words[i].value, 1, i)
        ELSE Token("EOF", PyNone, 1, i)]

ParseInputs ==
    {Place(ws) : ws \in SeqsUpTo(ParseWords, MaxTokens)}
        \cup {Place(GroupOpening \o ws \o GroupClosing) : ws \in SeqsUpTo(ParseWords, MaxBody)}

ParseInit ==
    /\ \E toks \in ParseInputs : pipe = [tokens |-> toks, result |-> PRaise("none", 0)]
    /\ pc = "parse"
    /\ lexer = NoLexer
    /\ lexret = "notcalled"
    /\ ncalls = 0

(* Parser.__init__: parsed_tree is bound only when parse_tokens returns    *)
ParseTokens ==
    /\ pc = "parse"
    /\ LET result == parse_tokens(pipe.tokens)
       IN  /\ pipe' = [pipe EXCEPT !.result = result]
           /\ pc' = IF result.err = "none" THEN "parsed" ELSE "failed"
    /\ UNCHANGED <<lexer, lexret, ncalls>>

ParseNext == ParseTokens

SpecParse == ParseInit /\ [][ParseNext]_vars

(* braces open after the first i tokens                                    *)
Depth(toks, i) ==
    Cardinality({j \in 1..i : toks[j].token_type = "OPEN_BRACE"})
        - Cardinality({j \in 1..i : toks[j].token_type = "CLOSE_BRACE"})

IsOperator(t) == t.token_type = "OPERATOR"
EndsOperand(t) == t.token_type \in {"EOF", "CLOSE_BRACE"}

Unclosed(toks) == Depth(toks, Len(toks)) > 0
StrayClose(toks) == \E i \in 1..Len(toks) : Depth(toks, i) < 0
OperatorForValue(toks) == \E i \in 1..Len(toks) - 1 : IsOperator(toks[i]) /\ IsOperator(toks[i + 1])
MissingOperand(toks) ==
    \E i \in 1..Len(toks) - 1 :
        /\ IsOperator(toks[i]) /\ toks[i].value # EqualsSign
        /\ \/ EndsOperand(toks[i + 1])
           \/ i = 1
           \/ toks[i - 1].token_type = "OPEN_BRACE"

Malformed(toks) ==
    Unclosed(toks) \/ StrayClose(toks) \/ OperatorForValue(toks) \/ MissingOperand(toks)

(* the tokens before position i, closed by an EOF of their own             *)
Before(toks, i) == SubSeq(toks, 1, i - 1) \o <<Token("EOF", PyNone, 1, i)>>

(* C14: a token sequence with an unclosed "{", a stray "}", an operator in *)
(* the place of a value or a comparison without an operand makes the       *)
(* parser raise; every failure is a ParseException that carries a token of *)
(* the sequence - the stray "}" itself when what precedes it parses, the   *)
(* EOF token when a "{" is all that is left open - no tree is bound, and   *)
(* nothing runs after the failure.                                         *)
C14_FatalParseErrors ==
    LET toks == pipe.tokens
        result == pipe.result
    IN  /\ (pc # "parse" /\ Malformed(toks)) => pc = "failed"
        /\ pc = "failed" =>
              /\ result.err = "ParseException"
              /\ result.node = NoNode
              /\ result.pos < Len(toks)
              /\ ~ ENABLED ParseNext
              /\ \A i \in 1..Len(toks) :
                    (Depth(toks, i) < 0 /\ parse_tokens(Before(toks, i)).err = "none")
                        => result.pos + 1 = i
              /\ (\E n \in 1..Len(toks) : parse_tokens(SubSeq(toks, 1, Len(toks) - 1)
                        \o [j \in 1..n |-> Token("CLOSE_BRACE", PyStr(<<"}">>), 1, 1)]
                        \o <<toks[Len(toks)]>>).err = "none")
                    => result.pos + 1 = Len(toks)

C14_Witness ==
    /\ pc = "failed"
    /\ Len(pipe.tokens) = 4
    /\ pipe.tokens[3].token_type = "OPEN_BRACE"
    /\ pipe.result = PRaise("ParseException", 3)

-----------------------------------------------------------------------------
(* The batch run (src/generator.py): collect_inputs and generate.  What    *)
(* format_document does with a text - return the normalized text or raise  *)
(* - is open: the run is modelled for both outcomes on every file.  A file *)
(* is known by its name; the order of FileNames is the order of sorted().  *)

MaxFiles == 3

FileNames == <<"a.txt", "b.txt", "c.txt", "d.txt", "e.txt">>
Names == {FileNames[i] : i \in 1..MaxFiles}
NameIndex(name) == CHOOSE i \in 1..Len(FileNames) : FileNames[i] = name

(* sorted(...) of a set of paths of one directory                          *)
Sorted(names) ==
    CHOOSE s \in [1..Cardinality(names) -> names] :
        /\ {s[i] : i \in 1..Len(s)} = names
        /\ \A i \in 1..Len(s) - 1 : NameIndex(s[i]) < NameIndex(s[i + 1])

(* the output directory before the run: a path is absent or holds the      *)
(* text of an earlier run                                                  *)
OutputStates == [Names -> {"absent", "old"}]

(* the input path is a directory holding the .txt files found, one file,  *)
(* or nothing                                                              *)
InputPaths ==
    {[kind |-> "dir", found |-> found] : found \in SUBSET Names}
        \cup {[kind |-> "file", found |-> {name}] : name \in Names}
        \cup {[kind |-> "missing", found |-> {}]}

BatchInit ==
    /\ \E path \in InputPaths, before \in OutputStates :
           pipe = [path |-> path.kind, found |-> path.found, files |-> <<>>, i |-> 1, out |-> before,
                   before |-> before, returned |-> {}, normalized |-> "none",
                   wrote |-> <<>>, error |-> "none", failed |-> "none"]
    /\ pc = "collect"
    /\ lexer = NoLexer
    /\ lexret = "notcalled"
    /\ ncalls = 0

(* collect_inputs: the sorted .txt files of a directory, the file itself,  *)
(* or FileNotFoundError                                                    *)
CollectInputs ==
    /\ pc = "collect"
    /\ IF pipe.found = {}
       THEN /\ pc' = "failed"
            /\ pipe' = [pipe EXCEPT !.error = "FileNotFoundError"]
       ELSE /\ pc' = "format"
            /\ pipe' = [pipe EXCEPT !.files = Sorted(pipe.found)]
    /\ UNCHANGED <<lexer, lexret, ncalls>>

BatchSource == pipe.files[pipe.i]

(* a run that goes on to write after format_document raised                *)
Mut_AfterFormat(source, result) ==
    [pc |-> "write", normalized |-> "new", returned |-> {}, error |-> "none", failed |-> "none"]

(* generate, lines 75-78: the text format_document returned is kept, an    *)
(* exception becomes RuntimeError(f"Failed to parse {source}")             *)
AfterFormat(source, result) ==
    IF result = "raise"
    THEN [pc |-> "failed", normalized |-> "none", returned |-> {},
          error |-> "RuntimeError", failed |-> source]
    ELSE [pc |-> "write", normalized |-> "new", returned |-> {source},
          error |-> "none", failed |-> "none"]

(* generate, lines 73-78: read the source and call format_document         *)
FormatDocument ==
    /\ pc = "format"
    /\ \E result \in {"return", "raise"} :
           LET after == AfterFormat(BatchSource, result)
           IN  /\ pc' = after.pc
               /\ pipe' = [pipe EXCEPT !.normalized = after.normalized,
                                       !.returned = @ \cup after.returned,
                                       !.error = after.error,
                                       !.failed = after.failed]
    /\ UNCHANGED <<lexer, lexret, ncalls>>

(* generate, lines 79-85: write output_dir / source.name, print "Wrote"    *)
WriteOutput ==
    /\ pc = "write"
    /\ pipe' = [pipe EXCEPT !.out[BatchSource] = pipe.normalized,
                            !.wrote = Append(@, BatchSource),
                            !.normalized = "none",
                            !.i = @ + 1]
    /\ pc' = IF pipe.i < Len(pipe.files) THEN "format" ELSE "done"
    /\ UNCHANGED <<lexer, lexret, ncalls>>

BatchNext ==
    \/ CollectInputs
    \/ FormatDocument
    \/ WriteOutput

SpecBatch == BatchInit /\ [][BatchNext]_vars

(* C15: the files are taken in sorted order; a path of the output          *)
(* directory changes only for a file on which format_document returned;    *)
(* when it raises on a file the run ends with an error naming that file,   *)
(* the file's output path is as it was before the run, the outputs of the  *)
(* files before it are written and those of the files after it untouched.  *)
C15_NoOutputForFailingFile ==
    /\ pc # "collect" /\ pipe.found # {} =>
          /\ {pipe.files[j] : j \in 1..Len(pipe.files)} = pipe.found
          /\ \A j \in 1..Len(pipe.files) - 1 :
                NameIndex(pipe.files[j]) < NameIndex(pipe.files[j + 1])
    /\ pipe.wrote = SubSeq(pipe.files, 1, Len(pipe.wrote))
    /\ \A name \in Names :
          IF \E j \in 1..Len(pipe.wrote) : pipe.wrote[j] = name
          THEN name \in pipe.returned /\ pipe.out[name] = "new"
          ELSE pipe.out[name] = pipe.before[name]
    /\ pipe.error = "RuntimeError" =>
          /\ pc = "failed"
          /\ pipe.failed = BatchSource
          /\ pipe.failed \notin pipe.returned
          /\ pipe.out[pipe.failed] = pipe.before[pipe.failed]
          /\ pipe.wrote = SubSeq(pipe.files, 1, pipe.i - 1)
          /\ ~ ENABLED BatchNext

C15_Witness ==
    /\ pc = "failed"
    /\ pipe.error = "RuntimeError"
    /\ pipe.failed = "b.txt"
    /\ pipe.wrote = <<"a.txt">>
    /\ pipe.before["b.txt"] = "old"
    /\ pipe.found = Names

-----------------------------------------------------------------------------
(* NodeTransformer with the identity of its objects.  A list or mapping is *)
(* known by the place that made it: "tree" for the children or elements    *)
(* list of the parse-tree node at a path, "new" for an object the          *)
(* transformer allocated while it converted the node at a path.  A value   *)
(* that is no list or mapping is a scalar: the str, number or bool of a    *)
(* token, or a Transformed* instance built by the conversion.  Every       *)
(* item assignment and every append is recorded with the object it acts on.*)

Ref(own, path) == [own |-> own, path |-> path]
Scalar == [r |-> "scalar"]
ListObj(ref, items) == [r |-> "list", ref |-> ref, items |-> items]
DictObj(ref, entries) == [r |-> "dict", ref |-> ref, entries |-> entries]

Write(ref, item) == [ref |-> ref, item |-> item]
EReturn(obj, writes) == [err |-> "none", obj |-> obj, writes |-> writes]
ERaise(kind, writes) == [err |-> kind, obj |-> Scalar, writes |-> writes]

(* a transformer that hands out the elements list of the array node        *)
Mut_array_list(path, items) == ListObj(Ref("tree", path), items)

(* node_transformer.py 115: the list the comprehension builds              *)
array_list(path, items) == ListObj(Ref("new", path), items)

(* context[key] = value on the mapping made at path                        *)
SetItem(ctx, path, key, value) ==
    [entries |-> DictSet(ctx.entries, key, value),
     writes |-> Append(ctx.writes, Write(Ref("new", path), value))]

(* context[key].append(value)                                              *)
AppendItem(ctx, key, value) ==
    LET existing == DictGet(ctx.entries, key)
    IN  [entries |-> DictSet(ctx.entries, key, ListObj(existing.ref, Append(existing.items, value))),
         writes |-> Append(ctx.writes, Write(existing.ref, value))]

(* _store_in_context for the child at position i of the node at path       *)
e_store_in_context(ctx, path, i, key, value, always) ==
    LET fresh == Ref("new", path \o <<i, 0>>)
    IN  IF key.s \in always
        THEN IF ~HasKey(ctx.entries, key) THEN SetItem(ctx, path, key, ListObj(fresh, <<value>>))
             ELSE IF DictGet(ctx.entries, key).r = "list" THEN AppendItem(ctx, key, value)
             ELSE SetItem(ctx, path, key, ListObj(fresh, <<DictGet(ctx.entries, key), value>>))
        ELSE IF HasKey(ctx.entries, key)
        THEN IF DictGet(ctx.entries, key).r = "list" THEN AppendItem(ctx, key, value)
             ELSE SetItem(ctx, path, key, ListObj(fresh, <<DictGet(ctx.entries, key), value>>))
        ELSE SetItem(ctx, path, key, value)

RECURSIVE e_convert_node(_, _, _), e_convert_array_node(_, _, _, _, _, _),
          e_convert_children(_, _, _, _, _), EArrayStep(_, _, _, _, _, _, _),
          EChild(_, _, _, _, _), EChildrenStep(_, _, _, _, _)

EArrayStep(r, node, path, i, items, writes, always) ==
    IF r.err # "none" THEN ERaise(r.err, writes \o r.writes)
    ELSE e_convert_array_node(node, path, i + 1, Append(items, r.obj), writes \o r.writes, always)

e_convert_array_node(node, path, i, items, writes, always) ==
    IF i > Len(node.elements) THEN EReturn(array_list(path, items), writes)
    ELSE EArrayStep(e_convert_node(node.elements[i], path \o <<i>>, always),
                    node, path, i, items, writes, always)

(* the exception of a step, or the context after it                        *)
EStored(ctx, value, after) ==
    IF value.err # "none"
    THEN [err |-> value.err, ctx |-> [ctx EXCEPT !.writes = @ \o value.writes]]
    ELSE [err |-> "none", ctx |-> after]

KeyText(k) == IF IsPlain(k.val) THEN k.val ELSE PyStr(k.val.s)

(* one pass of the loop of _convert_object_node: child i of the node at    *)
(* path                                                                    *)
EChild(ctx, child, path, i, always) ==
    IF child.n = "KeyValue"
    THEN LET k == convert_value_node(child.key)
         IN  IF k.err # "none" THEN [err |-> k.err, ctx |-> ctx]
             ELSE LET value == e_convert_node(child.value, path \o <<i>>, always)
                  IN  EStored(ctx, value,
                              e_store_in_context([ctx EXCEPT !.writes = @ \o value.writes],
                                                 path, i, KeyText(k), value.obj, always))
    ELSE IF child.n = "Comparison"
    THEN LET comparison == convert_comparison_node(child)
         IN  IF comparison.err # "none" THEN [err |-> comparison.err, ctx |-> ctx]
             ELSE IF ~Hashable(comparison.val.left) THEN [err |-> "TypeError", ctx |-> ctx]
             ELSE [err |-> "none", ctx |-> SetItem(ctx, path, comparison.val.left, Scalar)]
    ELSE IF child.n = "Array"
    THEN LET key == child.context.value
         IN  IF HasKey(ctx.entries, key) /\ DictGet(ctx.entries, key).r # "list"
             THEN [err |-> "AttributeError", ctx |-> ctx]
             ELSE LET value == e_convert_array_node(child, path \o <<i>>, 1, <<>>, <<>>, always)
                      seen == [ctx EXCEPT !.writes = @ \o value.writes]
                  IN  EStored(ctx, value,
                              IF HasKey(ctx.entries, key) THEN AppendItem(seen, key, value.obj)
                              ELSE SetItem(seen, path, key, value.obj))
    ELSE IF child.n \in ObjectClasses
    THEN LET value == e_convert_children(child, path \o <<i>>, 1, [entries |-> <<>>, writes |-> <<>>], always)
         IN  EStored(ctx, value,
                     e_store_in_context([ctx EXCEPT !.writes = @ \o value.writes],
                                        path, i, child.context.value, value.obj, always))
    ELSE [err |-> "none", ctx |-> ctx]

EChildrenStep(r, node, path, i, always) ==
    IF r.err # "none" THEN ERaise(r.err, r.ctx.writes)
    ELSE e_convert_children(node, path, i + 1, r.ctx, always)

(* _convert_object_node: context = {} is the mapping made at path          *)
e_convert_children(node, path, i, ctx, always) ==
    IF i > Len(node.children) THEN EReturn(DictObj(Ref("new", path), ctx.entries), ctx.writes)
    ELSE EChildrenStep(EChild(ctx, node.children[i], path, i, always), node, path, i, always)

e_convert_node(node, path, always) ==
    IF node.n = "Value" THEN [err |-> convert_value_node(node).err, obj |-> Scalar, writes |-> <<>>]
    ELSE IF node.n = "Comparison"
    THEN [err |-> convert_comparison_node(node).err, obj |-> Scalar, writes |-> <<>>]
    ELSE IF node.n = "Array" THEN e_convert_array_node(node, path, 1, <<>>, <<>>, always)
    ELSE IF node.n = "KeyValue" THEN e_convert_node(node.value, path, always)
    ELSE e_convert_children(node, path, 1, [entries |-> <<>>, writes |-> <<>>], always)

(* list.append on the children or elements list of the node at path        *)
RECURSIVE AppendAt(_, _, _)
AppendAt(node, path, item) ==
    IF path = <<>>
    THEN IF node.n = "Array" THEN [node EXCEPT !.elements = Append(@, item)]
         ELSE [node EXCEPT !.children = Append(@, item)]
    ELSE IF node.n = "Array"
    THEN [node EXCEPT !.elements[Head(path)] = AppendAt(@, Tail(path), item)]
    ELSE [node EXCEPT !.children[Head(path)] = AppendAt(@, Tail(path), item)]

(* the parse tree after the recorded appends and item assignments          *)
RECURSIVE TreeAfter(_, _)
TreeAfter(tree, writes) ==
    IF writes = <<>> THEN tree
    ELSE TreeAfter(IF Head(writes).ref.own = "tree"
                   THEN AppendAt(tree, Head(writes).ref.path, Head(writes).item)
                   ELSE tree,
                   Tail(writes))

NormalizeInit ==
    /\ \E text \in PipeDocs :
           pipe = [input |-> text, before |-> NoNode, tree |-> NoNode, norm |-> PyNone,
                   effects |-> EReturn(Scalar, <<>>), err |-> "none"]
    /\ pc = "read"
    /\ lexer = NoLexer
    /\ lexret = "notcalled"
    /\ ncalls = 0

(* ParserManager.__init__: Lexer and Parser on the text                    *)
ReadTree ==
    /\ pc = "read"
    /\ LET l == LexerInit(pipe.input, TRUE)
           r == parse_tokens(l.obj.tokens)
       IN  /\ lexer' = l.obj
           /\ lexret' = l.ret
           /\ IF l.ret = "ValueError" \/ r.err # "none"
              THEN /\ pc' = "unparsed"
                   /\ pipe' = [pipe EXCEPT !.err = IF l.ret = "ValueError" THEN l.ret ELSE r.err]
              ELSE /\ pc' = "normalize"
                   /\ pipe' = [pipe EXCEPT !.before = r.node, !.tree = r.node]
    /\ ncalls' = ncalls + 1

(* NodeTransformer(parsed_tree) on the tree and on the objects it is made  *)
(* of                                                                      *)
Normalize ==
    /\ pc = "normalize"
    /\ LET r == NodeTransformer(pipe.tree, {})
           e == e_convert_node(pipe.tree, <<>>, {})
       IN  /\ pipe' = [pipe EXCEPT !.norm = r.val, !.err = r.err, !.effects = e,
                                   !.tree = TreeAfter(pipe.tree, e.writes)]
           /\ pc' = IF r.err = "none" THEN "normalized" ELSE "failed"
    /\ UNCHANGED <<lexer, lexret, ncalls>>

NormalizeNext ==
    \/ ReadTree
    \/ Normalize

SpecNormalize == NormalizeInit /\ [][NormalizeNext]_vars

(* the lists and mappings an object is made of                             *)
RECURSIVE RefsOf(_)
RefsOf(obj) ==
    IF obj.r = "scalar" THEN {}
    ELSE IF obj.r = "list"
    THEN {obj.ref} \cup UNION {RefsOf(obj.items[i]) : i \in 1..Len(obj.items)}
    ELSE {obj.ref} \cup UNION {RefsOf(obj.entries[i].value) : i \in 1..Len(obj.entries)}

(* a normalized value and an object have the same lists and mappings       *)
RECURSIVE SameShape(_, _)
SameShape(v, obj) ==
    IF IsList(v)
    THEN /\ obj.r = "list" /\ Len(obj.items) = Len(v.items)
         /\ \A i \in 1..Len(v.items) : SameShape(v.items[i], obj.items[i])
    ELSE IF IsDict(v)
    THEN /\ obj.r = "dict" /\ Len(obj.entries) = Len(v.entries)
         /\ \A i \in 1..Len(v.entries) :
                /\ obj.entries[i].key = v.entries[i].key
                /\ SameShape(v.entries[i].value, obj.entries[i].value)
    ELSE obj.r = "scalar"

(* C16: when NodeTransformer has run on a parse tree, whether it returned  *)
(* or raised, the tree is what it was before, every append and item        *)
(* assignment acted on an object the transformer made itself, and no list  *)
(* or mapping of the normalized tree is a list of the parse tree.          *)
C16_NormalizationLeavesTree ==
    pc \in {"normalized", "failed"} =>
        /\ pipe.tree = pipe.before
        /\ \A i \in 1..Len(pipe.effects.writes) : pipe.effects.writes[i].ref.own = "new"
        /\ \A ref \in RefsOf(pipe.effects.obj) : ref.own = "new"
        /\ pipe.effects.err = pipe.err
        /\ pc = "normalized" => SameShape(pipe.norm, pipe.effects.obj)

C16_Witness ==
    /\ pc = "failed"
    /\ pipe.err = "AttributeError"
    /\ Len(pipe.effects.writes) > 2
    /\ pipe.tree # NoNode

-----------------------------------------------------------------------------
(* Entry order, read off the token list on one side and off the normalized *)
(* tree and the printed lines on the other.                                *)

(* the index of the "}" that closes the "{" at index open                  *)
Closing(toks, open) ==
    CHOOSE j \in open + 1..Len(toks) :
        /\ Depth(toks, j) = Depth(toks, open) - 1
        /\ \A m \in open + 1..j - 1 : Depth(toks, m) >= Depth(toks, open)

StartsEntry(toks, i) ==
    /\ toks[i].token_type \notin {"OPERATOR", "OPEN_BRACE", "CLOSE_BRACE", "EOF"}
    /\ toks[i + 1].token_type \in {"OPERATOR", "OPEN_BRACE"}
    /\ i = 1 \/ toks[i - 1].token_type # "OPERATOR"

(* the indexes from first to last of the tokens that open an entry at      *)
(* brace depth depth, in source order                                      *)
EntryStarts(toks, first, last, depth) ==
    SelectSeq([i \in 1..(last - first + 1) |-> first + i - 1],
              LAMBDA i : Depth(toks, i - 1) = depth /\ StartsEntry(toks, i))

(* the "{" of the entry that starts at index i, 0 when it has none         *)
GroupOf(toks, i) ==
    IF toks[i + 1].token_type = "OPEN_BRACE" THEN i + 1
    ELSE IF toks[i + 1].value = EqualsSign /\ toks[i + 2].token_type = "OPEN_BRACE" THEN i + 2
    ELSE 0

(* a sequence without the repetitions of what it held before               *)
RECURSIVE FirstOccurrences(_)
FirstOccurrences(s) ==
    IF s = <<>> THEN <<>>
    ELSE LET front == FirstOccurrences(SubSeq(s, 1, Len(s) - 1))
         IN  IF \E i \in 1..Len(front) : front[i] = s[Len(s)] THEN front
             ELSE Append(front, s[Len(s)])

SourceValue(tok) == convert_value_node(ValueNode(tok)).val

(* the keys of a stretch of source in the order the output is to have, and *)
(* under each key the brace groups with entries and the bare values that   *)
(* were written for it, in source order                                    *)
RECURSIVE SourceOrder(_, _, _, _, _), SourceEntry(_, _, _, _), SourceGroups(_, _, _), SourceLeaves(_, _)

SourceGroups(toks, starts, depth) ==
    IF starts = <<>> THEN <<>>
    ELSE LET open == GroupOf(toks, Head(starts))
             rest == SourceGroups(toks, Tail(starts), depth)
         IN  IF open = 0 \/ EntryStarts(toks, open + 1, Closing(toks, open) - 1, depth + 1) = <<>>
             THEN rest
             ELSE <<SourceOrder(toks, open + 1, Closing(toks, open) - 1, depth + 1,
                                toks[Head(starts)].token_type # "TRIGGER")>> \o rest

SourceLeaves(toks, starts) ==
    IF starts = <<>> THEN <<>>
    ELSE LET i == Head(starts)
             open == GroupOf(toks, i)
             inside == SelectSeq([j \in 1..Len(toks) |-> j],
                                 LAMBDA j : open < j /\ j < Closing(toks, open))
         IN  (IF open # 0
              THEN IF \E j \in 1..Len(inside) : toks[inside[j]].token_type \in {"OPERATOR", "OPEN_BRACE"}
                   THEN <<>>
                   ELSE [j \in 1..Len(inside) |-> SourceValue(toks[inside[j]])]
              ELSE IF toks[i + 1].value = EqualsSign THEN <<SourceValue(toks[i + 2])>>
              ELSE <<>>)
                 \o SourceLeaves(toks, Tail(starts))

SourceEntry(toks, key, starts, depth) ==
    LET mine == SelectSeq(starts, LAMBDA i : toks[i].value = key)
    IN  [key |-> key, groups |-> SourceGroups(toks, mine, depth), leaves |-> SourceLeaves(toks, mine)]

SourceOrder(toks, first, last, depth, hoists) ==
    LET starts == EntryStarts(toks, first, last, depth)
        defines(i) == /\ toks[i].token_type = "CONSTANT"
                      /\ toks[i + 1].value = EqualsSign
                      /\ GroupOf(toks, i) = 0
        constants == SelectSeq(starts, defines)
        others == SelectSeq(starts, LAMBDA i : ~defines(i))
        keys(s) == FirstOccurrences([j \in 1..Len(s) |-> toks[s[j]].value])
        entries(s) == [j \in 1..Len(keys(s)) |-> SourceEntry(toks, keys(s)[j], s, depth)]
    IN  IF hoists /\ constants # <<>>
        THEN <<[key |-> ConstantsKey, groups |-> <<entries(constants)>>, leaves |-> <<>>]>>
                 \o entries(others)
        ELSE entries(starts)

(* the same reading of a normalized mapping                                *)
RECURSIVE NormOrder(_), NormGroups(_), NormLeaves(_)

NormGroups(v) ==
    IF IsDict(v) THEN <<NormOrder(v)>>
    ELSE IF IsList(v) THEN Flatten([i \in 1..Len(v.items) |-> NormGroups(v.items[i])])
    ELSE <<>>

NormLeaves(v) ==
    IF IsDict(v) \/ v.k = "TransformedComparison" THEN <<>>
    ELSE IF IsList(v) THEN Flatten([i \in 1..Len(v.items) |-> NormLeaves(v.items[i])])
    ELSE <<v>>

DictKeys(v) == [i \in 1..Len(v.entries) |-> v.entries[i].key]

NormOrder(v) ==
    [i \in 1..Len(v.entries) |->
        [key |-> v.entries[i].key, groups |-> NormGroups(v.entries[i].value),
         leaves |-> NormLeaves(v.entries[i].value)]]

(* a reading of the normalized tree follows a reading of the source: the  *)
(* same keys in the same order, and under each key groups and bare values  *)
(* of the source in their source order                                     *)
RECURSIVE IsSubsequence(_, _), Follows(_, _), Embeds(_, _)

IsSubsequence(a, b) ==
    IF a = <<>> THEN TRUE
    ELSE IF b = <<>> THEN FALSE
    ELSE IF Head(a) = Head(b) THEN IsSubsequence(Tail(a), Tail(b))
    ELSE IsSubsequence(a, Tail(b))

Embeds(groups, written) ==
    IF groups = <<>> THEN TRUE
    ELSE IF written = <<>> THEN FALSE
    ELSE \/ Follows(Head(groups), Head(written)) /\ Embeds(Tail(groups), Tail(written))
         \/ Embeds(groups, Tail(written))

Follows(order, source) ==
    /\ Len(order) = Len(source)
    /\ \A i \in 1..Len(order) :
          /\ order[i].key = source[i].key
          /\ IsSubsequence(order[i].leaves, source[i].leaves)
          /\ Embeds(order[i].groups, source[i].groups)

(* ClausewitzBuilder (scripts/generator/v2/builder.py) on a normalized     *)
(* mapping.  The nodes are pydantic models, validated where one is         *)
(* constructed: an entry takes a str key and a value of the union          *)
(* ClausewitzValue, a comparison takes plain scalars, and a Transformed*   *)
(* instance is neither, so that the constructor raises ValidationError on  *)
(* one.  values.append on a list node validates nothing, and a node that   *)
(* is already a model instance is taken as it is.                          *)
BOk(node) == [err |-> "none", node |-> node]
BRaise(kind) == [err |-> kind, node |-> PyNone]

(* a value of the union ClausewitzValue                                     *)
IsClausewitzValue(v) == IsScalar(v) \/ IsComparison(v) \/ IsCList(v) \/ IsBlock(v)

RECURSIVE b_convert_scalar(_), b_convert_value(_), b_convert_block(_), b_convert_list(_)

BAll(results) == \A i \in 1..Len(results) : results[i].err = "none"
BNodes(results) == [i \in 1..Len(results) |-> results[i].node]

(* _convert_scalar: the value itself, or ClausewitzList(values=[...]) for  *)
(* a list                                                                  *)
b_convert_scalar(value) ==
    IF IsList(value)
    THEN LET items == [i \in 1..Len(value.items) |-> b_convert_scalar(value.items[i])]
         IN  IF BAll(items) /\ \A i \in 1..Len(items) : IsClausewitzValue(items[i].node)
             THEN BOk(ClausewitzList(BNodes(items)))
             ELSE BRaise("ValidationError")
    ELSE BOk(value)

(* _convert_list: the converted items are appended one by one              *)
b_convert_list(items) ==
    LET values == [i \in 1..Len(items) |-> b_convert_value(items[i])]
    IN  IF BAll(values) THEN BOk(ClausewitzList(BNodes(values))) ELSE BRaise("ValidationError")

b_convert_value(value) ==
    IF IsDict(value) THEN b_convert_block(value)
    ELSE IF IsList(value) THEN b_convert_list(value.items)
    ELSE IF value.k = "TransformedComparison"
    THEN LET left == b_convert_scalar(value.left)
             right == b_convert_scalar(value.right)
         IN  IF left.err = "none" /\ IsPlain(left.node) /\ right.err = "none" /\ IsPlain(right.node)
             THEN BOk(ClausewitzComparison(left.node, value.operator.s, right.node))
             ELSE BRaise("ValidationError")
    ELSE b_convert_scalar(value)

(* _convert_block: block.add_entry constructs a ClausewitzEntry            *)
b_convert_block(obj) ==
    LET values == [i \in 1..Len(obj.entries) |-> b_convert_value(obj.entries[i].value)]
    IN  IF /\ BAll(values)
           /\ \A i \in 1..Len(obj.entries) :
                  obj.entries[i].key.k = "str" /\ IsClausewitzValue(values[i].node)
        THEN BOk(ClausewitzBlock([i \in 1..Len(obj.entries) |->
                                     ClausewitzEntry(obj.entries[i].key.s, values[i].node)]))
        ELSE BRaise("ValidationError")

(* format_document, lines 63-66: the entries of the root block at level 0  *)
format_root(F, block) == format_entries(F, block.entries, 0)

(* text.split(): the words of a text                                       *)
RECURSIVE Words(_)
Words(text) ==
    LET blank(c) == c \in {" ", "\n", "\t"}
    IN  IF text = <<>> THEN <<>>
        ELSE IF blank(Head(text)) THEN Words(Tail(text))
        ELSE LET n == IF \E i \in 1..Len(text) : blank(text[i])
                      THEN (CHOOSE i \in 1..Len(text) :
                                blank(text[i]) /\ \A j \in 1..i - 1 : ~blank(text[j])) - 1
                      ELSE Len(text)
             IN  <<SubSeq(text, 1, n)>> \o Words(SubSeq(text, n + 1, Len(text)))

Opens(key) == <<key, <<"=">>, <<"{">>>>
Closes == <<<<"}">>>>
Empty(key) == <<key, <<"=">>, <<"{", "}">>>>

(* the words a normalized mapping is to give when its entries are printed  *)
(* in their order and every list in its order: a mapping under a key opens *)
(* a group, a list of mappings one group per mapping                       *)
RECURSIVE NormWords(_), NormEntryWords(_, _)

NormEntryWords(key, v) ==
    IF IsDict(v) THEN Opens(key) \o NormWords(v.entries) \o Closes
    ELSE IF IsList(v)
    THEN IF v.items = <<>> THEN Empty(key)
         ELSE IF \A i \in 1..Len(v.items) : IsDict(v.items[i])
         THEN Flatten([i \in 1..Len(v.items) |-> Opens(key) \o NormWords(v.items[i].entries) \o Closes])
         ELSE Opens(key) \o Flatten([i \in 1..Len(v.items) |-> Words(g_format_scalar(v.items[i]))]) \o Closes
    ELSE IF v.k = "TransformedComparison"
    THEN Words(g_format_scalar(v.left)) \o <<v.operator.s>> \o Words(g_format_scalar(v.right))
    ELSE <<key, <<"=">>>> \o Words(g_format_scalar(v))

NormWords(entries) ==
    Flatten([i \in 1..Len(entries) |-> NormEntryWords(PyStrOf(entries[i].key), entries[i].value)])

(* the same for a block of the intermediate representation                 *)
RECURSIVE BlockWords(_), EntryWords(_, _), ItemWords(_)

ComparisonWords(c) == Words(ModelStr(c.left)) \o <<c.operator>> \o Words(format_scalar(c.right))

ItemWords(item) ==
    IF IsBlock(item) THEN <<<<"{">>>> \o BlockWords(item.entries) \o Closes
    ELSE IF IsComparison(item) THEN ComparisonWords(item)
    ELSE Words(format_scalar(item))

EntryWords(key, v) ==
    IF IsBlock(v) THEN Opens(key) \o BlockWords(v.entries) \o Closes
    ELSE IF IsCList(v)
    THEN IF v.values = <<>> THEN Empty(key)
         ELSE Opens(key) \o Flatten([i \in 1..Len(v.values) |-> ItemWords(v.values[i])]) \o Closes
    ELSE IF IsComparison(v) THEN ComparisonWords(v)
    ELSE <<key, <<"=">>>> \o Words(format_scalar(v))

BlockWords(entries) ==
    Flatten([i \in 1..Len(entries) |-> EntryWords(entries[i].key, entries[i].value)])

(* a built node holds what the normalized value holds, in the same order   *)
RECURSIVE BuiltInOrder(_, _)
BuiltInOrder(node, v) ==
    IF IsDict(v)
    THEN /\ IsBlock(node) /\ Len(node.entries) = Len(v.entries)
         /\ \A i \in 1..Len(v.entries) :
                /\ node.entries[i].key = v.entries[i].key.s
                /\ BuiltInOrder(node.entries[i].value, v.entries[i].value)
    ELSE IF IsList(v)
    THEN /\ IsCList(node) /\ Len(node.values) = Len(v.items)
         /\ \A i \in 1..Len(v.items) : BuiltInOrder(node.values[i], v.items[i])
    ELSE IF v.k = "TransformedComparison"
    THEN IsComparison(node) /\ node.left = v.left /\ node.right = v.right
    ELSE node = v

Built == b_convert_block(pipe.raw)
Formatters == {NewFormatter(TRUE), NewFormatter(FALSE)}

SourceOfPass == SourceOrder(lexer.tokens, 1, Len(lexer.tokens) - 1, 0, FALSE)

(* C17: the keys of every mapping of the normalized tree are the keys of   *)
(* the source group in the order of their first occurrence, "_constants"   *)
(* first where constants were hoisted, and the groups and bare values      *)
(* under a key keep their source order; the printed text gives the         *)
(* entries of the normalized tree and the items of its lists in their      *)
(* order; the builder keeps the order of entries and items, and so does    *)
(* the text ClausewitzFormatter prints, with inlining and without.         *)
C17_EntryOrderPreserved ==
    /\ pc = "collect" => Follows(NormOrder(pipe.norm), SourceOfPass)
    /\ pc = "done" => Words(pipe.out) = NormEntryWords(Technologies, pipe.raw)
    /\ (pc = "done" /\ Built.err = "none") =>
          /\ BuiltInOrder(Built.node, pipe.raw)
          /\ \A F \in Formatters :
                LET lines == format_root(F, Built.node)
                IN  lines.err = "none" =>
                      Words(Join(lines.lines, <<"\n">>)) = BlockWords(Built.node.entries)

C17_Witness ==
    /\ pc = "done"
    /\ FirstPass
    /\ Built.err = "none"
    /\ format_root(NewFormatter(TRUE), Built.node).err = "none"
    /\ \E i \in 1..Len(pipe.raw.entries) :
          /\ IsDict(pipe.raw.entries[i].value)
          /\ \E j \in 1..Len(pipe.raw.entries[i].value.entries) :
                LET v == pipe.raw.entries[i].value.entries[j].value
                IN  IsDict(v) /\ DictKeys(v) = <<ConstantsKey, PyStr(<<"b">>)>>

-----------------------------------------------------------------------------
(* the brace group a = { ... } that is all of the input: its body, and the *)
(* node the parser built for it                                            *)
IsGroupInput(toks) ==
    /\ Len(toks) >= 5
    /\ [i \in 1..3 |-> [type |-> toks[i].token_type, value |-> toks[i].value]] = GroupOpening
    /\ ~StrayClose(toks)
    /\ Closing(toks, 3) = Len(toks) - 1
GroupBody(toks) == SubSeq(toks, 4, Len(toks) - 2)
GroupNode == pipe.result.node.children[1]
GroupParsed == pc = "parsed" /\ IsGroupInput(pipe.tokens)

(* an "=" at the nesting depth of the group itself                         *)
OwnEquals(toks) ==
    \E i \in 4..Len(toks) - 2 : IsEquals(toks[i]) /\ Depth(toks, i - 1) = 1

BareValues(body) ==
    \A i \in 1..Len(body) : body[i].token_type \notin {"OPERATOR", "OPEN_BRACE", "CLOSE_BRACE"}

(* C18 as claimed: a brace group is parsed as a list exactly when no "="   *)
(* occurs at its own nesting depth, and as an object otherwise.            *)
C18_AsClaimed ==
    GroupParsed => (GroupNode.n = "Array" <=> ~OwnEquals(pipe.tokens))

(* C18: a brace group is parsed as a list exactly when it holds bare       *)
(* values only - no operator and no nested brace group, the empty group    *)
(* included - and its elements are those values in source order; every     *)
(* other group that parses is an object, with or without an "=" at its own *)
(* depth; { 1 1 1 } is a list of three numbers and { a = 1 } an object     *)
(* with one key/value child.                                               *)
C18_ListIffBareValues ==
    GroupParsed =>
        LET body == GroupBody(pipe.tokens)
        IN  /\ Len(pipe.result.node.children) = 1
            /\ GroupNode.n = "Array" <=> BareValues(body)
            /\ GroupNode.n # "Array" => GroupNode.n = "Object"
            /\ GroupNode.n = "Array" =>
                  GroupNode.elements = [i \in 1..Len(body) |-> ValueNode(body[i])]
            /\ OwnEquals(pipe.tokens) => GroupNode.n = "Object"
            /\ (Len(body) = 3 /\ \A i \in 1..3 : body[i].token_type = "NUMBER_LITERAL") =>
                  GroupNode.n = "Array" /\ Len(GroupNode.elements) = 3
            /\ (Len(body) = 3 /\ body[1].token_type = "IDENTIFIER" /\ IsEquals(body[2])
                    /\ body[3].token_type = "NUMBER_LITERAL") =>
                  /\ GroupNode.n = "Object"
                  /\ Len(GroupNode.children) = 1
                  /\ GroupNode.children[1].n = "KeyValue"

C18_Witness ==
    /\ GroupParsed
    /\ Len(GroupBody(pipe.tokens)) = 3
    /\ IsRelational(pipe.tokens[5])
    /\ GroupNode.n = "Object"
    /\ GroupNode.children[1].n = "Comparison"

-----------------------------------------------------------------------------
(* The v2 formatter on its own: ClausewitzFormatter.format_entry given an  *)
(* entry of the intermediate representation at level 0.                    *)

MaxListLen == 9

Scalars == {PyIntV(<<"1">>), PyStr(<<"x">>), PyBool(TRUE), PyStr(<<"a", " ", "b">>),
            PyFloatV(<<"2", ".", "5">>)}

AComparison == ClausewitzComparison(PyStr(<<"a">>), <<">">>, PyIntV(<<"1">>))

ScalarLists ==
    {ClausewitzList([i \in 1..n |-> s]) : n \in 0..MaxListLen, s \in Scalars}
        \cup {ClausewitzList(<<s, t>>) : s \in Scalars, t \in Scalars}

EntryKeys == {<<"a">>, <<"b">>}

EntriesOver(values) == {ClausewitzEntry(key, value) : key \in EntryKeys, value \in values}

FlatBlocks ==
    {ClausewitzBlock(es) :
        es \in SeqsUpTo(EntriesOver(Scalars \cup {AComparison, ClausewitzList(<<>>),
                                                  ClausewitzList(<<PyIntV(<<"1">>), PyStr(<<"x">>)>>)}), 2)}

OneScalarBlock == ClausewitzBlock(<<ClausewitzEntry(<<"a">>, PyIntV(<<"1">>))>>)
TwoEntryBlock ==
    ClausewitzBlock(<<ClausewitzEntry(<<"a">>, PyIntV(<<"1">>)), ClausewitzEntry(<<"b">>, PyStr(<<"x">>))>>)

MixedLists ==
    {ClausewitzList(s) :
        s \in SeqsUpTo(Scalars \cup {AComparison, OneScalarBlock, TwoEntryBlock,
                                     ClausewitzBlock(<<>>),
                                     ClausewitzList(<<PyIntV(<<"1">>), PyIntV(<<"1">>)>>)}, 2)}

NestedBlocks ==
    {ClausewitzBlock(es) :
        es \in SeqsUpTo({ClausewitzEntry(<<"a">>, v) :
                            v \in {PyIntV(<<"1">>), OneScalarBlock, TwoEntryBlock,
                                   ClausewitzBlock(<<>>),
                                   ClausewitzList(<<OneScalarBlock, PyIntV(<<"1">>)>>),
                                   ClausewitzList([i \in 1..MaxListLen |-> PyIntV(<<"1">>)])}}, 2)}

FormatValues ==
    Scalars \cup {AComparison} \cup ScalarLists \cup FlatBlocks \cup MixedLists \cup NestedBlocks

FormatInit ==
    /\ \E value \in FormatValues, inline_braces \in BOOLEAN :
           pipe = [key |-> <<"k">>, value |-> value, inline_braces |-> inline_braces,
                   out |-> FOk(<<>>)]
    /\ pc = "format"
    /\ lexer = NoLexer
    /\ lexret = "notcalled"
    /\ ncalls = 0

(* format_document's loop body: formatter.format_entry(key, value, level=0) *)
FormatEntry ==
    /\ pc = "format"
    /\ pc' = "formatted"
    /\ pipe' = [pipe EXCEPT
                   !.out = format_entry(NewFormatter(pipe.inline_braces), pipe.key, pipe.value, 0)]
    /\ UNCHANGED <<lexer, lexret, ncalls>>

FormatNext == FormatEntry

SpecFormat == FormatInit /\ [][FormatNext]_vars

(* whether a list or a block is one the inlining rule puts on one line     *)
InlinableList(list) ==
    /\ list.values # <<>>
    /\ Len(list.values) <= 8
    /\ \A i \in 1..Len(list.values) : list.values[i].k \in {"str", "int", "float", "bool"}

InlinableBlock(block) ==
    /\ Len(block.entries) = 1
    /\ block.entries[1].value.k \in {"str", "int", "float", "bool"}

(* The number of lines a value takes.  Under the rule "claimed" every list *)
(* and block follows the inlining rule wherever it stands; under the rule  *)
(* "printed" an empty list takes one line, a block that is an element of a *)
(* list is always a multi-line group, and a list that is an element of a   *)
(* list takes one line.                                                    *)
RECURSIVE Lines(_, _, _), EntryLines(_, _, _), ItemLines(_, _, _)

Lines(v, inline, rule) ==
    IF IsCList(v)
    THEN IF v.values = <<>> THEN (IF rule = "printed" THEN 1 ELSE 2)
         ELSE IF inline /\ InlinableList(v) THEN 1
         ELSE 2 + ItemLines(v.values, inline, rule)
    ELSE IF IsBlock(v)
    THEN IF inline /\ InlinableBlock(v) THEN 1
         ELSE 2 + EntryLines(v.entries, inline, rule)
    ELSE 1

EntryLines(entries, inline, rule) ==
    IF entries = <<>> THEN 0
    ELSE Lines(Head(entries).value, inline, rule) + EntryLines(Tail(entries), inline, rule)

ItemLines(items, inline, rule) ==
    IF items = <<>> THEN 0
    ELSE (IF rule = "claimed" THEN Lines(Head(items), inline, rule)
          ELSE IF IsBlock(Head(items)) THEN 2 + EntryLines(Head(items).entries, inline, rule)
          ELSE 1)
         + ItemLines(Tail(items), inline, rule)

Formatted == pc = "formatted" /\ pipe.out.err = "none"

(* C8 as stated: a list is on one line iff inlining is on and it is        *)
(* non-empty, of at most 8 elements, all plain scalars; a block iff        *)
(* inlining is on and it has exactly one entry, a plain scalar; every      *)
(* other block or list is a multi-line group with one child per line.      *)
C8_AsClaimed ==
    Formatted => Len(pipe.out.lines) = Lines(pipe.value, pipe.inline_braces, "claimed")

(* C8, amended: a non-empty list is on one line iff inlining is on and it  *)
(* has at most 8 elements, all plain scalars; a block that is the value of *)
(* an entry is on one line iff inlining is on and it has exactly one       *)
(* entry, a plain scalar; an empty list is always the one line "key = {}"; *)
(* a block that is an element of a list is always a multi-line group and a *)
(* list that is an element of a list takes one line; every other block or  *)
(* list is a multi-line group "key = {" ... "}" with one child per line.   *)
C8_InliningDecision ==
    pc = "formatted" =>
        /\ pipe.out.err = "none"
        /\ Len(pipe.out.lines) = Lines(pipe.value, pipe.inline_braces, "printed")
        /\ IsCList(pipe.value) =>
               (Len(pipe.out.lines) = 1 <=>
                    \/ pipe.value.values = <<>>
                    \/ pipe.inline_braces /\ InlinableList(pipe.value))
        /\ IsBlock(pipe.value) =>
               (Len(pipe.out.lines) = 1 <=> pipe.inline_braces /\ InlinableBlock(pipe.value))
        /\ Len(pipe.out.lines) > 1 =>
               /\ pipe.out.lines[1] = pipe.key \o <<" ", "=", " ", "{">>
               /\ pipe.out.lines[Len(pipe.out.lines)] = <<"}">>

(* a list of 8 scalars has been printed on one line, inlining enabled      *)
C8_Witness ==
    /\ Formatted
    /\ pipe.inline_braces
    /\ IsCList(pipe.value)
    /\ Len(pipe.value.values) = 8
    /\ Len(pipe.out.lines) = 1

-----------------------------------------------------------------------------
(* A percentage literal through the pipeline: the lexer, the scalar        *)
(* conversion of NodeTransformer and the scalar printing of                *)
(* _ClausewitzFormatter.                                                   *)

MaxNumeralLen == 4

NumeralAlphabet == {"0", "5", "7", "."}
PercentSigns == {<<"%">>, <<"%", "%">>}

PercentInputs ==
    {[numeral |-> n, sign |-> s] : n \in SeqsUpTo(NumeralAlphabet, MaxNumeralLen) \ {<<>>},
                                   s \in PercentSigns}

PercentInit ==
    /\ \E i \in PercentInputs :
           pipe = [numeral |-> i.numeral, sign |-> i.sign, input |-> i.numeral \o i.sign,
                   token |-> EOFToken, value |-> PyNone, out |-> <<>>]
    /\ pc = "lex"
    /\ lexer = NoLexer
    /\ lexret = "notcalled"
    /\ ncalls = 0

(* Lexer(input): the text is taken further when it is one percentage token *)
LexPercentage ==
    /\ pc = "lex"
    /\ LET r == LexerInit(pipe.input, TRUE)
       IN  /\ lexer' = r.obj
           /\ lexret' = r.ret
           /\ IF /\ r.ret = "tokens"
                 /\ Len(r.obj.tokens) = 2
                 /\ r.obj.tokens[1].token_type = "PERCENTAGE_LITERAL"
              THEN pc' = "normalize" /\ pipe' = [pipe EXCEPT !.token = r.obj.tokens[1]]
              ELSE pc' = "rejected" /\ UNCHANGED pipe
    /\ ncalls' = ncalls + 1

(* NodeTransformer._convert_value_node on the token's value node           *)
NormalizePercentage ==
    /\ pc = "normalize"
    /\ LET r == convert_value_node(ValueNode(pipe.token))
       IN  IF r.err # "none" THEN pc' = "failed" /\ UNCHANGED pipe
           ELSE pc' = "format" /\ pipe' = [pipe EXCEPT !.value = r.val]
    /\ UNCHANGED <<lexer, lexret, ncalls>>

(* _ClausewitzFormatter._format_scalar                                     *)
FormatPercentage ==
    /\ pc = "format"
    /\ pc' = "done"
    /\ pipe' = [pipe EXCEPT !.out = g_format_scalar(pipe.value)]
    /\ UNCHANGED <<lexer, lexret, ncalls>>

PercentNext ==
    \/ LexPercentage
    \/ NormalizePercentage
    \/ FormatPercentage

SpecPercent == PercentInit /\ [][PercentNext]_vars

(* a numeral written the shortest way: digits, no needless leading zero,   *)
(* and a fraction, when there is one, that does not end in 0               *)
Canonical(numeral) ==
    /\ Count(numeral, ".") <= 1
    /\ Head(numeral) # "."
    /\ numeral[Len(numeral)] \notin {"."}
    /\ Contains(numeral, ".") => numeral[Len(numeral)] # "0"
    /\ (Head(numeral) = "0" /\ Len(numeral) > 1) => numeral[2] = "."

(* C9: a percentage literal normalizes to its number divided by 100 with   *)
(* the sign variant it was written with, and printing that value gives the *)
(* original text back.                                                     *)
C9_PercentageRoundTrip ==
    (pc = "done" /\ Canonical(pipe.numeral)) =>
        /\ pipe.value.k = "TransformedPercentage"
        /\ pipe.value.sign = pipe.sign
        /\ pipe.out = pipe.input

-----------------------------------------------------------------------------
(* A numeric text on its own through the lexer: a digit, or "-" and a      *)
(* digit, followed by digits, "." and "%".                                 *)

MaxNumericLen == 6

NumericAlphabet == {"1", "2", ".", "%"}
NumericDigits == {"1", "2"}

NumericInputs ==
    {sign \o <<d>> \o rest : sign \in {<<>>, <<"-">>}, d \in NumericDigits,
                             rest \in SeqsUpTo(NumericAlphabet, MaxNumericLen - 1)}

NumericInit ==
    /\ \E text \in NumericInputs : pipe = [input |-> text]
    /\ pc = "lex"
    /\ lexer = NoLexer
    /\ lexret = "notcalled"
    /\ ncalls = 0

(* Lexer(input): the constructor tokenizes the text                        *)
LexNumeric ==
    /\ pc = "lex"
    /\ LET r == LexerInit(pipe.input, TRUE)
       IN  lexer' = r.obj /\ lexret' = r.ret
    /\ pc' = "lexed"
    /\ ncalls' = ncalls + 1
    /\ UNCHANGED pipe

NumericNext == LexNumeric

SpecNumeric == NumericInit /\ [][NumericNext]_vars

(* the whole text is three dot-separated groups of 1 to 4 digits           *)
DateShape(v) ==
    \E a \in 1..4, b \in 1..4, c \in 1..4 :
        /\ Len(v) = a + b + c + 2
        /\ AllDigits(SubSeq(v, 1, a))
        /\ v[a + 1] = "."
        /\ AllDigits(SubSeq(v, a + 2, a + b + 1))
        /\ v[a + b + 2] = "."
        /\ AllDigits(SubSeq(v, a + b + 3, Len(v)))

(* C20: a numeric text gives exactly one token that covers it: DATE iff    *)
(* the whole text has the date shape, otherwise PERCENTAGE with the raw    *)
(* text iff it contains "%", otherwise NUMBER, a float iff the text        *)
(* contains "." and an integer if not.                                     *)
C20_NumericClassification ==
    pc = "lexed" =>
        /\ lexret = "tokens"
        /\ Len(lexer.tokens) = 2
        /\ LET t == lexer.tokens[1]
               v == pipe.input
           IN  /\ t.token_type = "DATE_LITERAL" <=> DateShape(v)
               /\ t.token_type = "DATE_LITERAL" => t.value = PyStr(v)
               /\ ~DateShape(v) =>
                     /\ t.token_type = "PERCENTAGE_LITERAL" <=> Contains(v, "%")
                     /\ Contains(v, "%") => t.value = PyStr(v)
                     /\ ~Contains(v, "%") =>
                           /\ t.token_type = "NUMBER_LITERAL"
                           /\ t.value.k = "float" <=> Contains(v, ".")
                           /\ ~Contains(v, ".") => t.value = PyIntV(PyInt(v))
-----------------------------------------------------------------------------
(* Identifier texts through the lexer: words separated by one blank.       *)

MaxWords == 3

IdentWords ==
    {<<"y", "e", "s">>, <<"n", "o">>, <<"a">>, <<"-", "a">>, <<"@", "a">>, <<"a", ".", "b">>,
     <<"@", "a", ".", "b">>, <<"k", "w">>, <<"m", "d">>, <<"e", "f">>, <<"t", "r">>,
     <<"k", "m">>, <<"m", "e">>, <<"e", "t">>, <<"x", "x">>}

IdentInputs == SeqsUpTo(IdentWords, MaxWords) \ {<<>>}

IdentInit ==
    /\ \E ws \in IdentInputs : pipe = [words |-> ws, input |-> Join(ws, <<" ">>)]
    /\ pc = "lex"
    /\ lexer = NoLexer
    /\ lexret = "notcalled"
    /\ ncalls = 0

(* Lexer(input): the constructor tokenizes the text                        *)
LexIdent ==
    /\ pc = "lex"
    /\ LET r == LexerInit(pipe.input, TRUE)
       IN  lexer' = r.obj /\ lexret' = r.ret
    /\ pc' = "lexed"
    /\ ncalls' = ncalls + 1
    /\ UNCHANGED pipe

IdentNext == LexIdent

SpecIdent == IdentInit /\ [][IdentNext]_vars

(* the vocabulary lists a word is in, highest precedence first             *)
KindsOf(w) ==
    SelectSeq(<<"KEYWORD", "MODIFIER", "EFFECT", "TRIGGER">>,
              LAMBDA k : w \in (CASE k = "KEYWORD" -> keywords [] k = "MODIFIER" -> modifiers
                                  [] k = "EFFECT" -> effects [] k = "TRIGGER" -> triggers))

(* C21: yes/no give BOOLEAN true/false; otherwise a text with "@" gives     *)
(* CONSTANT, or IDENTIFIER when the token before it is an IDENTIFIER;       *)
(* otherwise a text with "." gives SCOPE; otherwise the kind is the         *)
(* highest-precedence vocabulary list the word is in (keyword > modifier >  *)
(* effect > trigger), or IDENTIFIER when it is in none.                     *)
C21_IdentifierClassification ==
    pc = "lexed" =>
        /\ lexret = "tokens"
        /\ Len(lexer.tokens) = Len(pipe.words) + 1
        /\ \A i \in 1..Len(pipe.words) :
              LET w == pipe.words[i]
                  t == lexer.tokens[i]
              IN  IF w = <<"y", "e", "s">> THEN t.token_type = "BOOLEAN" /\ t.value = PyBool(TRUE)
                  ELSE IF w = <<"n", "o">> THEN t.token_type = "BOOLEAN" /\ t.value = PyBool(FALSE)
                  ELSE /\ t.value = PyStr(w)
                       /\ IF Contains(w, "@")
                          THEN IF i > 1 /\ lexer.tokens[i - 1].token_type = "IDENTIFIER"
                               THEN t.token_type = "IDENTIFIER"
                               ELSE t.token_type = "CONSTANT"
                          ELSE IF Contains(w, ".") THEN t.token_type = "SCOPE"
                          ELSE IF KindsOf(w) # <<>> THEN t.token_type = KindsOf(w)[1]
                          ELSE t.token_type = "IDENTIFIER"

(* a word of all four lists was lexed as a keyword, after a constant text   *)
(* that followed an identifier                                              *)
C21_Witness ==
    /\ pc = "lexed"
    /\ pipe.words = <<<<"a">>, <<"@", "a">>, <<"x", "x">>>>
    /\ Len(KindsOf(pipe.words[3])) = 4
    /\ lexer.tokens[2].token_type = "IDENTIFIER"
    /\ lexer.tokens[3].token_type = "KEYWORD"
-----------------------------------------------------------------------------
(* The cursor of the parser.  A routine called with the cursor on a token  *)
(* returns with the cursor it left behind; a read past the last token is   *)
(* the IndexError of the model.                                            *)

(* the tokens a node stores, in tree order: contexts, keys, values and the *)
(* operands of comparisons                                                 *)
RECURSIVE StoredTokens(_), StoredInAll(_)
StoredTokens(node) ==
    CASE node.n = "Value" -> <<[type |-> node.type, value |-> node.value]>>
      [] node.n = "KeyValue" -> StoredTokens(node.key) \o StoredTokens(node.value)
      [] node.n = "Comparison" -> StoredTokens(node.left) \o StoredTokens(node.right)
      [] node.n = "Array" -> StoredTokens(node.context) \o StoredInAll(node.elements)
      [] OTHER -> StoredTokens(node.context) \o StoredInAll(node.children)

StoredInAll(nodes) ==
    IF nodes = <<>> THEN <<>> ELSE StoredTokens(Head(nodes)) \o StoredInAll(Tail(nodes))

(* the tokens of the sequence that carry a value: everything but braces,   *)
(* operators and the EOF                                                   *)
Operands(toks) ==
    LET kept == SelectSeq(toks, LAMBDA t : t.token_type \notin
                                    {"OPEN_BRACE", "CLOSE_BRACE", "OPERATOR", "EOF"})
    IN  [i \in 1..Len(kept) |-> [type |-> kept[i].token_type, value |-> kept[i].value]]

(* C22: on a token sequence that ends with EOF the cursor stays within     *)
(* [0, length-1] whatever routine runs and wherever it starts, the EOF     *)
(* token is never consumed and never stored in a node, and a successful    *)
(* parse ends with the cursor on the EOF token, every other token having   *)
(* been consumed once and in order.                                        *)
C22_CursorInvariant ==
    pc \in {"parsed", "failed"} =>
        LET toks == strip_comments(pipe.tokens)
            last == Len(toks) - 1
        IN  /\ pipe.result.err \in {"none", "ParseException"}
            /\ pipe.result.pos \in 0..last
            /\ \A p \in 0..last :
                  LET r == parse(toks, p)
                  IN  /\ r.err \in {"none", "ParseException"}
                      /\ r.pos \in p..last
                      /\ r.err = "none" => r.pos > p
            /\ pc = "parsed" =>
                  /\ pipe.result.pos = last
                  /\ current_token(toks, pipe.result.pos).token_type = "EOF"
                  /\ StoredInAll(pipe.result.node.children) = Operands(toks)
                  /\ \A i \in 1..Len(StoredInAll(pipe.result.node.children)) :
                        StoredInAll(pipe.result.node.children)[i].type # "EOF"

(* a sequence of five tokens and the EOF was parsed, a brace group in it   *)
C22_Witness ==
    /\ pc = "parsed"
    /\ Len(pipe.tokens) = 6
    /\ pipe.result.pos = 5
    /\ \E i \in 1..5 : pipe.tokens[i].token_type = "OPEN_BRACE"
    /\ Len(StoredInAll(pipe.result.node.children)) = 2
-----------------------------------------------------------------------------
(* One scalar through the lexer, the scalar conversion of NodeTransformer  *)
(* and the scalar printing of both formatters.                             *)

MaxScalarLen == 5

ScalarAlphabet == {"a", "1", ".", "\"", "@", "%", "-"}

ScalarInit ==
    /\ \E text \in SeqsUpTo(ScalarAlphabet, MaxScalarLen) \ {<<>>} :
           pipe = [input |-> text, token |-> EOFToken, value |-> PyNone,
                   legacy |-> <<>>, v2 |-> <<>>]
    /\ pc = "lex"
    /\ lexer = NoLexer
    /\ lexret = "notcalled"
    /\ ncalls = 0

(* Lexer(input): the text is taken further when it is one token            *)
LexScalar ==
    /\ pc = "lex"
    /\ LET r == LexerInit(pipe.input, TRUE)
       IN  /\ lexer' = r.obj
           /\ lexret' = r.ret
           /\ IF r.ret = "tokens" /\ Len(r.obj.tokens) = 2
              THEN pc' = "normalize" /\ pipe' = [pipe EXCEPT !.token = r.obj.tokens[1]]
              ELSE pc' = "rejected" /\ UNCHANGED pipe
    /\ ncalls' = ncalls + 1

(* NodeTransformer._convert_value_node on the token's value node           *)
NormalizeScalar ==
    /\ pc = "normalize"
    /\ LET r == convert_value_node(ValueNode(pipe.token))
       IN  IF r.err # "none" THEN pc' = "failed" /\ UNCHANGED pipe
           ELSE pc' = "normalized" /\ pipe' = [pipe EXCEPT !.value = r.val]
    /\ UNCHANGED <<lexer, lexret, ncalls>>

(* _ClausewitzFormatter._format_scalar and ClausewitzFormatter._format_scalar *)
RenderScalar ==
    /\ pc = "normalized"
    /\ pc' = "rendered"
    /\ pipe' = [pipe EXCEPT !.legacy = g_format_scalar(pipe.value),
                            !.v2 = format_scalar(pipe.value)]
    /\ UNCHANGED <<lexer, lexret, ncalls>>

ScalarNext ==
    \/ LexScalar
    \/ NormalizeScalar
    \/ RenderScalar

SpecScalar == ScalarInit /\ [][ScalarNext]_vars

(* what a bare identifier with the text of the token normalizes to         *)
AsBareIdentifier(token) ==
    convert_value_node(ValueNode(Tok("IDENTIFIER", token.value))).val

(* C24: normalization tags a string literal as a quoted string, a constant *)
(* reference as a constant, a percentage literal as a percentage and a     *)
(* date literal as a date, and passes numbers, booleans and identifiers    *)
(* through; a date and a quoted string differ from a bare identifier with  *)
(* the same text.                                                          *)
C24_ScalarTagging ==
    pc = "normalized" =>
        LET kind == pipe.token.token_type
            text == pipe.token.value.s
        IN  /\ kind = "STRING_LITERAL" => pipe.value = TransformedString(text)
            /\ kind = "CONSTANT" => pipe.value = TransformedConstant(text)
            /\ kind = "PERCENTAGE_LITERAL" => pipe.value.k = "TransformedPercentage"
            /\ kind = "DATE_LITERAL" => pipe.value = TransformedDate(text)
            /\ kind \in {"NUMBER_LITERAL", "BOOLEAN", "IDENTIFIER"} => pipe.value = pipe.token.value
            /\ kind \in {"DATE_LITERAL", "STRING_LITERAL"} =>
                  pipe.value # AsBareIdentifier(pipe.token)
-----------------------------------------------------------------------------
(* What the normalized mapping of a block keeps of the block's children.   *)

ChildrenOfKind(block, kind) == SelectSeq(block.children, LAMBDA c : c.n = kind)

(* the values a mapping holds: the value of each entry, and the items of   *)
(* the lists among them                                                    *)
RECURSIVE HeldValues(_)
HeldValues(entries) ==
    IF entries = <<>> THEN <<>>
    ELSE LET v == Head(entries).value
         IN  (IF IsList(v) THEN v.items ELSE <<v>>) \o HeldValues(Tail(entries))

ComparisonsHeld(mapping) ==
    Len(SelectSeq(HeldValues(mapping.entries), LAMBDA v : v.k = "TransformedComparison"))

HoldsScalar(mapping, scalar) ==
    \/ \E i \in 1..Len(mapping.entries) : mapping.entries[i].key = scalar
    \/ \E i \in 1..Len(HeldValues(mapping.entries)) : HeldValues(mapping.entries)[i] = scalar

(* C25: normalization loses no child of a block: every comparison of the   *)
(* block is held by the block's mapping, two comparisons with the same     *)
(* left-hand side both, and a bare value standing among keyed children is  *)
(* held as well.                                                           *)
C25_NoChildLost ==
    pc = "normalized" =>
        \A block \in Blocks(pipe.tree) :
            LET mapping == NormOfBlock(block)
            IN  /\ ComparisonsHeld(mapping) = Len(ChildrenOfKind(block, "Comparison"))
                /\ \A i \in 1..Len(block.children) :
                      block.children[i].n = "Value" =>
                          HoldsScalar(mapping, NormOfChild(block.children[i]))
-----------------------------------------------------------------------------
(* ClausewitzFormatter on what ClausewitzBuilder builds from a normalized  *)
(* technologies mapping.                                                   *)

(* the comparisons a built node holds                                      *)
RECURSIVE ComparisonsIn(_)
ComparisonsIn(node) ==
    IF IsComparison(node) THEN {node}
    ELSE IF IsBlock(node)
    THEN UNION {ComparisonsIn(node.entries[i].value) : i \in 1..Len(node.entries)}
    ELSE IF IsCList(node)
    THEN UNION {ComparisonsIn(node.values[i]) : i \in 1..Len(node.values)}
    ELSE {}

(* the lists a built node holds                                            *)
RECURSIVE ListsIn(_)
ListsIn(node) ==
    IF IsBlock(node)
    THEN UNION {ListsIn(node.entries[i].value) : i \in 1..Len(node.entries)}
    ELSE IF IsCList(node)
    THEN {node} \cup UNION {ListsIn(node.values[i]) : i \in 1..Len(node.values)}
    ELSE {}

BuiltFromRaw == pc = "generate" /\ Built.err = "none"

(* C26: on every tree that parse, normalize and build produce, formatting  *)
(* returns text without raising, with inlining and without; no built       *)
(* comparison has a comparison or a block on its right-hand side, and no   *)
(* list that takes the inline path holds a block.                          *)
C26_FormatterTotal ==
    BuiltFromRaw =>
        /\ \A F \in Formatters : format_root(F, Built.node).err = "none"
        /\ \A c \in ComparisonsIn(Built.node) : ~IsComparison(c.right) /\ ~IsBlock(c.right)
        /\ \A l \in ListsIn(Built.node) :
              can_inline_list(l) => \A i \in 1..Len(l.values) : ~IsBlock(l.values[i])

(* a tree with a list of two-entry blocks was built and printed            *)
C26_Witness ==
    /\ BuiltFromRaw
    /\ \E l \in ListsIn(Built.node) :
          \E i \in 1..Len(l.values) : IsBlock(l.values[i]) /\ Len(l.values[i].entries) = 2
    /\ format_root(NewFormatter(TRUE), Built.node).err = "none"
-----------------------------------------------------------------------------
(* the script text the claim gives a scalar                                *)
Quoted(text) == <<"\"">> \o Replace(text, <<"\"">>, <<"\\", "\"">>) \o <<"\"">>

ScriptText(value) ==
    CASE value.k = "bool" -> IF value = PyBool(TRUE) THEN <<"y", "e", "s">> ELSE <<"n", "o">>
      [] value.k = "TransformedString" -> Quoted(value.s)
      [] value.k \in {"TransformedConstant", "TransformedDate"} -> value.s
      [] value.k = "str" -> IF needs_quotes(value.s) THEN Quoted(value.s) ELSE value.s

(* C27: a boolean is rendered yes/no, a tagged quoted string as its text   *)
(* in double quotes with inner double quotes escaped, a tagged constant    *)
(* and a tagged date verbatim, and a plain string bare unless it is empty  *)
(* or holds whitespace or a character outside [A-Za-z0-9_./@:], in which   *)
(* case it is double-quoted; by either formatter.                          *)
C27_ScalarRendering ==
    (pc = "rendered" /\ pipe.value.k \in {"bool", "TransformedString", "TransformedConstant",
                                          "TransformedDate", "str"}) =>
        /\ pipe.legacy = ScriptText(pipe.value)
        /\ pipe.v2 = ScriptText(pipe.value)
-----------------------------------------------------------------------------
(* ClausewitzLexer (scripts/generator/v2/lexer.py).  C is the lexer object *)
(* plus err, the exception in flight: "none", "ValueError" or "IndexError".*)
(* _line and _column are functions of the text and the position.           *)

LexerMetadata(kw, md, tr) == [keywords |-> kw, modifiers |-> md, triggers |-> tr]

ClausewitzLexer(text, metadata) ==
    [text |-> text, metadata |-> metadata, tokens |-> <<>>, pos |-> 0, err |-> "none"]

cl_line(C, pos) == 1 + Count(SubSeq(C.text, 1, pos), "\n")

cl_column(C, pos) ==
    LET breaks == {i \in 1..pos : C.text[i] = "\n"}
    IN  IF breaks = {} THEN pos + 1 ELSE pos + 1 - Max0(breaks)

cl_token(C, type, value, start) ==
    [type |-> type, value |-> value, line |-> cl_line(C, start), column |-> cl_column(C, start)]

cl_is_eof(C) == C.pos >= Len(C.text)

cl_peek(C, ahead) == IF C.pos + ahead >= Len(C.text) THEN NUL ELSE C.text[C.pos + ahead + 1]

(* text[pos] raises IndexError past the end                                *)
cl_advance(C) ==
    IF C.err # "none" THEN C
    ELSE IF C.pos >= Len(C.text) THEN [C EXCEPT !.err = "IndexError"]
    ELSE [C EXCEPT !.pos = C.pos + 1]

cl_emit(C, type, value, start) ==
    IF C.err # "none" THEN C
    ELSE [C EXCEPT !.tokens = Append(C.tokens, cl_token(C, type, value, start))]

RECURSIVE cl_consume_whitespace(_)
cl_consume_whitespace(C) ==
    IF ~cl_is_eof(C) /\ isspace(cl_peek(C, 0)) THEN cl_consume_whitespace(cl_advance(C)) ELSE C

RECURSIVE cl_skip_line(_)
cl_skip_line(C) ==
    IF ~cl_is_eof(C) /\ cl_peek(C, 0) # "\n" THEN cl_skip_line(cl_advance(C)) ELSE C

cl_consume_comment(C) == cl_advance(cl_skip_line(C))

cl_emit_brace(C) ==
    cl_advance(cl_emit(C, IF cl_peek(C, 0) = "{" THEN "OPEN_BRACE" ELSE "CLOSE_BRACE",
                       PyStr(<<cl_peek(C, 0)>>), C.pos))

(* the while loop of _emit_string; buffer holds the characters kept so far *)
RECURSIVE cl_string_loop(_, _, _, _)
cl_string_loop(C, quote, buffer, start) ==
    IF C.err # "none" THEN C
    ELSE IF cl_is_eof(C) THEN [C EXCEPT !.err = "ValueError"]
    ELSE IF cl_peek(C, 0) = quote
    THEN cl_emit(cl_advance(C), "STRING", PyStr(buffer), start)
    ELSE IF cl_peek(C, 0) = "\\"
    THEN LET C1 == cl_advance(C)
         IN  cl_string_loop(cl_advance(C1), quote, Append(buffer, cl_peek(C1, 0)), start)
    ELSE cl_string_loop(cl_advance(C), quote, Append(buffer, cl_peek(C, 0)), start)

cl_emit_string(C) == cl_string_loop(cl_advance(C), cl_peek(C, 0), <<>>, C.pos)

RECURSIVE cl_take_while(_, _)
cl_take_while(C, cls) ==
    IF ~cl_is_eof(C) /\ cl_peek(C, 0) \in cls THEN cl_take_while(cl_advance(C), cls) ELSE C

cl_emit_number(C) ==
    LET C1 == cl_take_while(cl_advance(C), Digits \cup {"."})
        text == SubSeq(C.text, C.pos + 1, C1.pos)
        dot_count == Count(text, ".")
    IN  IF dot_count > 1 THEN cl_emit(C1, "STRING", PyStr(text), C.pos)
        ELSE IF dot_count = 1 THEN cl_emit(C1, "NUMBER", PyFloatV(PyFloat(text)), C.pos)
        ELSE cl_emit(C1, "NUMBER", PyIntV(PyInt(text)), C.pos)

cl_emit_operator(C) ==
    LET C1 == cl_advance(C)
        C2 == IF ~cl_is_eof(C1) /\ cl_peek(C1, 0) = "=" THEN cl_advance(C1) ELSE C1
    IN  cl_emit(C2, "OPERATOR", PyStr(SubSeq(C.text, C.pos + 1, C2.pos)), C.pos)

cl_classify(C, word) ==
    IF word \in C.metadata.keywords THEN "KEYWORD"
    ELSE IF word \in C.metadata.modifiers THEN "MODIFIER"
    ELSE IF word \in C.metadata.triggers THEN "TRIGGER"
    ELSE "IDENTIFIER"

WordChars == Letters \cup Digits \cup {"_", ".", "@", ":", "-"}

cl_emit_identifier(C) ==
    LET C1 == cl_take_while(cl_advance(C), WordChars)
        word == SubSeq(C.text, C.pos + 1, C1.pos)
    IN  IF is_boolean(word)
        THEN cl_emit(C1, "BOOLEAN", PyBool(word = <<"y", "e", "s">>), C.pos)
        ELSE cl_emit(C1, cl_classify(C, word), PyStr(word), C.pos)

RECURSIVE cl_loop(_)
cl_loop(C) ==
    IF C.err # "none" \/ cl_is_eof(C) THEN C
    ELSE LET c == cl_peek(C, 0)
         IN  IF isspace(c) THEN cl_loop(cl_consume_whitespace(C))
             ELSE IF c = "#" THEN cl_loop(cl_consume_comment(C))
             ELSE IF c \in {"{", "}"} THEN cl_loop(cl_emit_brace(C))
             ELSE IF c \in {"\"", "'"} THEN cl_loop(cl_emit_string(C))
             ELSE IF isdigit(c) \/ (c = "-" /\ isdigit(cl_peek(C, 1))) THEN cl_loop(cl_emit_number(C))
             ELSE IF c \in {"<", ">", "!", "="} THEN cl_loop(cl_emit_operator(C))
             ELSE IF isalpha(c) \/ c \in {"_", ".", "@", ":", "-"} THEN cl_loop(cl_emit_identifier(C))
             ELSE [C EXCEPT !.err = "ValueError"]

(* ClausewitzLexer.tokenize: the tokens it returns, or the exception       *)
cl_tokenize(C) ==
    LET R == cl_loop(C)
    IN  IF R.err = "none"
        THEN [err |-> "none", tokens |-> Append(R.tokens, cl_token(R, "EOF", PyNone, R.pos))]
        ELSE [err |-> R.err, tokens |-> R.tokens]

-----------------------------------------------------------------------------
(* A string value through the formatter's quoted rendering and back through *)
(* a lexer: ClausewitzFormatter with ClausewitzLexer, and                  *)
(* _ClausewitzFormatter with Lexer.                                        *)

MaxStringLen == 4

StringAlphabet == {"a", " ", "\"", "'", "\\"}

StringValues == UNION {[1..n -> StringAlphabet] : n \in 0..MaxStringLen}

NoLex == [err |-> "notrun", tokens |-> <<>>]

QuoteInit ==
    /\ lexer = NewLexer(<<>>)
    /\ lexret = "notcalled"
    /\ ncalls = 0
    /\ \E s \in StringValues :
           pipe = [s |-> s, v2 |-> <<>>, legacy |-> <<>>, v2lex |-> NoLex, lex |-> NoLex]
    /\ pc = "format"

FormatQuoted ==
    /\ pc = "format"
    /\ pc' = "lex"
    /\ pipe' = [pipe EXCEPT !.v2 = format_scalar(PyStr(pipe.s)),
                            !.legacy = g_format_scalar(TransformedString(pipe.s))]
    /\ UNCHANGED <<lexer, lexret, ncalls>>

LexV2 ==
    /\ pc = "lex"
    /\ pipe.v2lex = NoLex
    /\ pipe' = [pipe EXCEPT !.v2lex = cl_tokenize(ClausewitzLexer(pipe.v2,
                                           LexerMetadata(keywords, modifiers, triggers)))]
    /\ UNCHANGED <<lexer, lexret, ncalls, pc>>

LexLegacy ==
    /\ pc = "lex"
    /\ pipe.lex = NoLex
    /\ LET R == LexerInit(pipe.legacy, TRUE)
       IN  /\ lexer' = R.obj
           /\ lexret' = R.ret
           /\ pipe' = [pipe EXCEPT !.lex = [err |-> IF R.ret = "tokens" THEN "none" ELSE R.ret,
                                            tokens |-> R.obj.tokens]]
    /\ ncalls' = ncalls + 1
    /\ UNCHANGED pc

QuoteNext ==
    \/ FormatQuoted
    \/ LexV2
    \/ LexLegacy

SpecQuote == QuoteInit /\ [][QuoteNext]_vars

(* the rendering is the double-quoted one                                  *)
IsQuoted(text) == Len(text) >= 2 /\ Head(text) = "\"" /\ text[Len(text)] = "\""

OneString(R, type, s) ==
    /\ R.err = "none"
    /\ Len(R.tokens) = 2
    /\ R.tokens[1][type] \in {"STRING", "STRING_LITERAL"}
    /\ R.tokens[1].value = PyStr(s)
    /\ R.tokens[2][type] = "EOF"

(* C28: tokenizing the formatter's double-quoted rendering of a string s   *)
(* gives exactly one string token whose value is s, for every s, with      *)
(* double quotes, single quotes or backslashes in it or not.               *)
C28_QuotedRoundTrip ==
    /\ (pipe.v2lex # NoLex /\ IsQuoted(pipe.v2)) => OneString(pipe.v2lex, "type", pipe.s)
    /\ (pipe.lex # NoLex /\ IsQuoted(pipe.legacy)) => OneString(pipe.lex, "token_type", pipe.s)
-----------------------------------------------------------------------------
(* the number of indent units a line starts with                           *)
RECURSIVE LeadingUnits(_, _)
LeadingUnits(line, unit) ==
    IF StartsWith(line, unit) THEN 1 + LeadingUnits(SubSeq(line, Len(unit) + 1, Len(line)), unit)
    ELSE 0

OpensGroup(line) == line # <<>> /\ line[Len(line)] = "{"

ClosesGroup(line, unit) ==
    SubSeq(line, LeadingUnits(line, unit) * Len(unit) + 1, Len(line)) = <<"}">>

(* every line carries as many indent units as there are multi-line groups  *)
(* open at it, d of them being open before the first line; a closing line  *)
(* stands at the depth of its header; no group is left open at the end     *)
RECURSIVE IndentTracksNesting(_, _, _)
IndentTracksNesting(lines, unit, d) ==
    IF lines = <<>> THEN d = 0
    ELSE LET line == Head(lines)
         IN  IF ClosesGroup(line, unit)
             THEN /\ d >= 1
                  /\ LeadingUnits(line, unit) = d - 1
                  /\ IndentTracksNesting(Tail(lines), unit, d - 1)
             ELSE /\ LeadingUnits(line, unit) = d
                  /\ IndentTracksNesting(Tail(lines), unit, IF OpensGroup(line) THEN d + 1 ELSE d)

BraceBalance(lines) ==
    Count(Flatten(lines), "{") = Count(Flatten(lines), "}")

(* C29: in formatted output every line is prefixed by exactly d indent     *)
(* units, d being the number of multi-line brace groups open at the line;  *)
(* a group's closing line has the prefix of its header and its children    *)
(* one unit more; opening and closing braces are balanced.                 *)
C29_IndentationTracksNesting ==
    (pc = "formatted" /\ pipe.out.err = "none") =>
        /\ IndentTracksNesting(pipe.out.lines, NewFormatter(pipe.inline_braces).indent, 0)
        /\ BraceBalance(pipe.out.lines)

(* a list of blocks inside a block: lines at depth 3, and an inline group  *)
(* on a nested line                                                        *)
C29_Witness ==
    /\ pc = "formatted"
    /\ pipe.out.err = "none"
    /\ \E i \in 1..Len(pipe.out.lines) :
           LeadingUnits(pipe.out.lines[i], NewFormatter(pipe.inline_braces).indent) = 3
    /\ \E i \in 1..Len(pipe.out.lines) :
           /\ LeadingUnits(pipe.out.lines[i], NewFormatter(pipe.inline_braces).indent) = 1
           /\ Count(pipe.out.lines[i], "{") = 1
           /\ Count(pipe.out.lines[i], "}") = 1
-----------------------------------------------------------------------------
(* TechCollection._from_transformed_tree (scripts/generator/hoi4/tech.py): *)
(* the Tech objects of a technologies mapping, their parents and their     *)
(* generations.  techs is the dict in insertion order; a path is given by  *)
(* the name it leads to.                                                   *)

MaxTechs == 3
MaxPaths == 2

TechNames == <<<<"t", "1">>, <<"t", "2">>, <<"t", "3">>>>

(* a name no technology of the file has                                    *)
UndefinedTech == <<"z", "z">>

Tech(name, path_list) ==
    [name |-> name, generation |-> 0, parents |-> <<>>, path_list |-> path_list]

TechKeys(techs) == {techs[i].name : i \in 1..Len(techs)}

TechIndex(techs, name) == CHOOSE i \in 1..Len(techs) : techs[i].name = name

(* the call chain of _assign_generation the model follows before it gives  *)
(* RecursionError.  A chain longer than the number of technologies has     *)
(* come back to a technology with a larger generation, and does so again   *)
(* until the interpreter's recursion limit is reached.                     *)
RecursionDepth == 3 * MaxTechs

AOk(techs) == [err |-> "none", techs |-> techs]
ARaise(kind, techs) == [err |-> kind, techs |-> techs]

(* techs[path["leads_to_tech"]].parents.append(tech.name) for one tech     *)
RECURSIVE add_parents(_, _, _)
add_parents(techs, name, paths) ==
    IF paths = <<>> THEN techs
    ELSE LET target == Head(paths)
             next == IF target \in TechKeys(techs)
                     THEN [techs EXCEPT ![TechIndex(techs, target)].parents = Append(@, name)]
                     ELSE techs
         IN  add_parents(next, name, Tail(paths))

RECURSIVE determine_parents(_, _)
determine_parents(techs, i) ==
    IF i > Len(techs) THEN techs
    ELSE determine_parents(add_parents(techs, techs[i].name, techs[i].path_list), i + 1)

RECURSIVE assign_generation(_, _, _, _)
RECURSIVE assign_paths(_, _, _)
assign_generation(techs, name, generation, is_root) ==
    IF generation > RecursionDepth THEN ARaise("RecursionError", techs)
    ELSE LET tech == techs[TechIndex(techs, name)]
         IN  IF tech.generation < generation \/ is_root
             THEN assign_paths(AOk([techs EXCEPT ![TechIndex(techs, name)].generation = generation]),
                               tech.path_list, generation + 1)
             ELSE AOk(techs)

(* the for loop over tech.path_list                                        *)
assign_paths(R, paths, generation) ==
    IF R.err # "none" \/ paths = <<>> THEN R
    ELSE IF Head(paths) \notin TechKeys(R.techs) THEN ARaise("KeyError", R.techs)
    ELSE assign_paths(assign_generation(R.techs, Head(paths), generation, FALSE),
                      Tail(paths), generation)

PathLists(n) ==
    UNION {[1..k -> {TechNames[j] : j \in 1..n} \cup {UndefinedTech}] : k \in 0..MaxPaths}

TechTrees == UNION {[1..n -> PathLists(n)] : n \in 0..MaxTechs}

TechInit ==
    /\ lexer = NoLexer
    /\ lexret = "notcalled"
    /\ ncalls = 0
    /\ \E tree \in TechTrees : pipe = [tree |-> tree, techs |-> <<>>, i |-> 0, err |-> "none"]
    /\ pc = "tree"

Raise(kind) ==
    /\ pc' = "raised"
    /\ pipe' = [pipe EXCEPT !.err = kind]

(* the loop that makes the Tech objects, or ValueError for no technologies *)
BuildTechs ==
    /\ pc = "tree"
    /\ IF pipe.tree = <<>> THEN Raise("ValueError")
       ELSE /\ pc' = "parents"
            /\ pipe' = [pipe EXCEPT
                           !.techs = [i \in 1..Len(pipe.tree) |-> Tech(TechNames[i], pipe.tree[i])]]
    /\ UNCHANGED <<lexer, lexret, ncalls>>

DetermineParents ==
    /\ pc = "parents"
    /\ pc' = "generations"
    /\ pipe' = [pipe EXCEPT !.techs = determine_parents(pipe.techs, 1), !.i = 1]
    /\ UNCHANGED <<lexer, lexret, ncalls>>

(* one iteration of the loop over techs.values() that starts the numbering *)
(* at the technologies without parents                                     *)
AssignGenerations ==
    /\ pc = "generations"
    /\ pipe.i <= Len(pipe.techs)
    /\ IF pipe.techs[pipe.i].parents = <<>>
       THEN LET R == assign_generation(pipe.techs, pipe.techs[pipe.i].name, 0, TRUE)
            IN  /\ pipe' = [pipe EXCEPT !.techs = R.techs, !.i = @ + 1, !.err = R.err]
                /\ pc' = IF R.err = "none" THEN "generations" ELSE "raised"
       ELSE /\ pipe' = [pipe EXCEPT !.i = @ + 1]
            /\ UNCHANGED pc
    /\ UNCHANGED <<lexer, lexret, ncalls>>

ReturnTechs ==
    /\ pc = "generations"
    /\ pipe.i > Len(pipe.techs)
    /\ pc' = "returned"
    /\ UNCHANGED <<lexer, lexret, ncalls, pipe>>

TechNext ==
    \/ BuildTechs
    \/ DetermineParents
    \/ AssignGenerations
    \/ ReturnTechs

SpecTech == TechInit /\ [][TechNext]_vars

(* the technologies a link path of exactly k links leads to from one       *)
(* without parents                                                         *)
RECURSIVE ReachedIn(_, _)
ReachedIn(techs, k) ==
    IF k = 0 THEN {i \in 1..Len(techs) : techs[i].parents = <<>>}
    ELSE {i \in 1..Len(techs) :
             \E j \in ReachedIn(techs, k - 1) :
                 \E p \in 1..Len(techs[j].path_list) : techs[j].path_list[p] = techs[i].name}

PathLengths(techs, i) == {k \in 0..Len(techs) : i \in ReachedIn(techs, k)}

(* C30: building the technologies finishes the parent and generation       *)
(* assignment for every set of path links, cycles reachable from a         *)
(* technology without parents and links to undefined technologies          *)
(* included, and then each technology reachable from one without parents   *)
(* has the length of the longest link path leading to it as generation.    *)
C30_GenerationNumberingTerminates ==
    /\ (pc = "raised") => pipe.tree = <<>>
    /\ (pc = "returned") =>
           \A i \in 1..Len(pipe.techs) :
               PathLengths(pipe.techs, i) # {} =>
                   pipe.techs[i].generation = Max0(PathLengths(pipe.techs, i))

====
